---- MODULE Spec2Model ----
(***************************************************************************)
(* A model of weedbox/inboxer: the in-memory mail store (MemoryMailStore), *)
(* the durable mail store (GormMailStore) and the cleanup scheduler of     *)
(* DefaultMailManager (ScheduleCleanup).                                    *)
(*                                                                         *)
(* Text is modelled as a sequence of one-character strings, so that JSON   *)
(* serialisation of tags and attachments and SQL LIKE are computed on the  *)
(* characters.  Times are naturals; 0 is the zero time.Time.               *)
(***************************************************************************)
EXTENDS Integers, Sequences, FiniteSets, TLC

VARIABLES
    mails,        \* MemoryMailStore.mails : id -> *Mail
    counter,      \* SimpleIDGenerator.counter
    rows,         \* the "mails" table of GormMailStore : id -> MailEntity
    heap,         \* nested attachment values (Go maps reached through interface{})
    now,          \* the wall clock read by time.Now()
    retM,         \* the last call on the in-memory store and what it returned
    retG,         \* the last call on the durable store and what it returned
    scan,         \* a client reading a result set page by page
    smu,          \* MemoryMailStore.mu : the writer holding it and the readers
    calls,        \* the store call each goroutine is in, and how far it has come
    mu,           \* DefaultMailManager.mu : its holder, or "free"
    cpc,          \* position of each thread calling the manager
    cleanupTick,  \* DefaultMailManager.cleanupTick : index into tickers, 0 = nil
    tickers,      \* every time.Ticker created so far
    loops         \* every cleanup goroutine started so far

storeVars == <<mails, counter, rows, heap, now, retM, retG, scan, smu, calls>>
schedVars == <<mu, cpc, cleanupTick, tickers, loops>>
vars == <<mails, counter, rows, heap, now, retM, retG, scan, smu, calls,
          mu, cpc, cleanupTick, tickers, loops>>

-----------------------------------------------------------------------------
(* Bounds of the model *)

MaxTime == 3        \* the clock runs from 1 to MaxTime
MaxGen == 1         \* ids the in-memory id generator hands out
MaxCalls == 3       \* ScheduleCleanup calls that arm a ticker
MaxIds == 2         \* ids handed out before the last call that asks for one
MarkPageSize == 2   \* the page MarkAllAsRead reads at a time: pageSize := 100 in the
                    \* code, scaled to the few messages a recipient has here

(* Program constants *)

DefaultPage == 1    \* page <= 0 is read as page 1
DefaultSize == 10   \* size <= 0 is read as size 10
ExportLimit == 10000  \* the size the database store's ExportMailLogs queries with

-----------------------------------------------------------------------------
(* Text *)

Q == "\""
DigitChars == <<"0", "1", "2", "3", "4", "5", "6", "7", "8", "9">>

\* fmt's %d of a small number
Digit(n) == DigitChars[n + 1]

\* the number a digit character stands for
DigitValue(c) == (CHOOSE i \in 1..Len(DigitChars) : DigitChars[i] = c) - 1

RECURSIVE Flatten(_)
Flatten(ss) == IF ss = <<>> THEN <<>> ELSE Head(ss) \o Flatten(Tail(ss))

\* strings.Contains / SQL LIKE '%pat%' on texts without wildcard characters
Contains(text, pat) ==
    \E i \in 1..(Len(text) - Len(pat) + 1) :
        SubSeq(text, i, i + Len(pat) - 1) = pat

Restrict(f, S) == [k \in S |-> f[k]]

SetMax(S) == CHOOSE x \in S : \A y \in S : y <= x

Min(a, b) == IF a < b THEN a ELSE b

-----------------------------------------------------------------------------
(* The entity model: Mail, MailFilter *)

NilTags == [nil |-> TRUE, v |-> <<>>]
Tags(v) == [nil |-> FALSE, v |-> v]

NilAtt == [nil |-> TRUE, m |-> <<>>]
Att(m) == [nil |-> FALSE, m |-> m]

\* attachment values: an int, a float64 (what encoding/json reads a number as),
\* a reference to a nested map {"n": heap[r]} shared through interface{},
\* or a nested map {"n": n} owned by the message
IntVal(n) == [kind |-> "int", n |-> n]
FloatVal(n) == [kind |-> "float", n |-> n]
RefVal(r) == [kind |-> "ref", n |-> r]
MapVal(n) == [kind |-> "map", n |-> n]
\* a value encoding/json cannot encode (a channel, a func)
ChanVal == [kind |-> "chan", n |-> 0]

Refs == {1}
AttKeys == <<"g", "i">>      \* the attachment keys in use, in sorted order

Mail(id, sender, recipient, title, content, att, read, ct, et, tags) ==
    [ID |-> id, SenderID |-> sender, RecipientID |-> recipient, Title |-> title,
     Content |-> content, Attachments |-> att, ReadStatus |-> read,
     CreateTime |-> ct, ExpireTime |-> et, Tags |-> tags]

ZeroMail == Mail(<<>>, "", "", "", "", NilAtt, FALSE, 0, 0, NilTags)

\* a *Mail argument: nil, or a pointer to a message
NilMailPtr == [nil |-> TRUE, val |-> ZeroMail]
Ptr(m) == [nil |-> FALSE, val |-> m]

Unset == [set |-> FALSE, v |-> 0]
UnsetBool == [set |-> FALSE, v |-> FALSE]
Some(x) == [set |-> TRUE, v |-> x]

Filter(sender, recipient, read, start, end, expired, tags) ==
    [nil |-> FALSE, SenderID |-> sender, RecipientID |-> recipient,
     ReadStatus |-> read, StartTime |-> start, EndTime |-> end,
     ExpiredOnly |-> expired, Tags |-> tags]

EmptyFilter == Filter("", "", UnsetBool, Unset, Unset, FALSE, <<>>)
NilFilter == [EmptyFilter EXCEPT !.nil = TRUE]

-----------------------------------------------------------------------------
(* MemoryMailStore helpers *)

\* copyMail: a fresh struct, a fresh tag slice and a fresh attachment map;
\* the values of the map are copied as they are, a nested map by reference
copyMail(mail) ==
    [ID |-> mail.ID, SenderID |-> mail.SenderID, RecipientID |-> mail.RecipientID,
     Title |-> mail.Title, Content |-> mail.Content, ReadStatus |-> mail.ReadStatus,
     CreateTime |-> mail.CreateTime, ExpireTime |-> mail.ExpireTime,
     Tags |-> IF mail.Tags.nil THEN NilTags
              ELSE Tags([i \in 1..Len(mail.Tags.v) |-> mail.Tags.v[i]]),
     Attachments |-> IF mail.Attachments.nil THEN NilAtt
                     ELSE Att([k \in DOMAIN mail.Attachments.m |-> mail.Attachments.m[k]])]

\* matchMail with a lower time bound that leaves out CreateTime = StartTime
matchMailStrictStart(mail, filter, t) ==
    IF filter.nil THEN TRUE
    ELSE IF filter.SenderID # "" /\ mail.SenderID # filter.SenderID THEN FALSE
    ELSE IF filter.RecipientID # "" /\ mail.RecipientID # filter.RecipientID THEN FALSE
    ELSE IF filter.ReadStatus.set /\ mail.ReadStatus # filter.ReadStatus.v THEN FALSE
    ELSE IF filter.StartTime.set /\ mail.CreateTime <= filter.StartTime.v THEN FALSE
    ELSE IF filter.EndTime.set /\ mail.CreateTime > filter.EndTime.v THEN FALSE
    ELSE IF filter.ExpiredOnly /\ (mail.ExpireTime = 0 \/ ~(mail.ExpireTime < t)) THEN FALSE
    ELSE IF Len(filter.Tags) > 0
         THEN \E i \in 1..Len(filter.Tags) : \E j \in 1..Len(mail.Tags.v) :
                  filter.Tags[i] = mail.Tags.v[j]
         ELSE TRUE

\* matchMail: the checks in the order of the code, each an early return
matchMail(mail, filter, t) ==
    IF filter.nil THEN TRUE
    ELSE IF filter.SenderID # "" /\ mail.SenderID # filter.SenderID THEN FALSE
    ELSE IF filter.RecipientID # "" /\ mail.RecipientID # filter.RecipientID THEN FALSE
    ELSE IF filter.ReadStatus.set /\ mail.ReadStatus # filter.ReadStatus.v THEN FALSE
    ELSE IF filter.StartTime.set /\ mail.CreateTime < filter.StartTime.v THEN FALSE
    ELSE IF filter.EndTime.set /\ mail.CreateTime > filter.EndTime.v THEN FALSE
    ELSE IF filter.ExpiredOnly /\ (mail.ExpireTime = 0 \/ ~(mail.ExpireTime < t)) THEN FALSE
    ELSE IF Len(filter.Tags) > 0
         THEN \E i \in 1..Len(filter.Tags) : \E j \in 1..Len(mail.Tags.v) :
                  filter.Tags[i] = mail.Tags.v[j]
         ELSE TRUE

\* SimpleIDGenerator.GenerateID, called with the counter already incremented
GenerateID(t, c) == <<"mail_", Digit(t), "_", Digit(c)>>

\* the orders of a sort that puts the oldest message first
RECURSIVE SortedOrdersOldestFirst(_, _)
SortedOrdersOldestFirst(tbl, ids) ==
    IF ids = {} THEN {<<>>}
    ELSE LET low == CHOOSE t \in {tbl[id].CreateTime : id \in ids} :
                        \A id \in ids : t <= tbl[id].CreateTime
         IN  UNION {{<<id>> \o rest : rest \in SortedOrdersOldestFirst(tbl, ids \ {id})} :
                    id \in {x \in ids : tbl[x].CreateTime = low}}

\* the orders sort.Slice can leave a set of messages in, whatever order the map
\* was ranged over: newest first, messages of equal CreateTime in any order
RECURSIVE SortedOrders(_, _)
SortedOrders(tbl, ids) ==
    IF ids = {} THEN {<<>>}
    ELSE LET top == SetMax({tbl[id].CreateTime : id \in ids})
         IN  UNION {{<<id>> \o rest : rest \in SortedOrders(tbl, ids \ {id})} :
                    id \in {x \in ids : tbl[x].CreateTime = top}}

\* a slice that starts one page too far
PageSliceNextPage(seq, page, size) ==
    LET total == Len(seq)
        start == page * size
        end == Min(start + size, total)
    IN  IF start >= total THEN <<>> ELSE SubSeq(seq, start + 1, end)

\* matchedMails[start:end] of the pagination code (page and size already coerced)
PageSlice(seq, page, size) ==
    LET total == Len(seq)
        start == (page - 1) * size
        end == Min(start + size, total)
    IN  IF start >= total THEN <<>> ELSE SubSeq(seq, start + 1, end)

coercePage(page) == IF page <= 0 THEN DefaultPage ELSE page
\* a size of zero let through
coerceSizeNegativeOnly(size) == IF size < 0 THEN DefaultSize ELSE size
coerceSize(size) == IF size <= 0 THEN DefaultSize ELSE size

-----------------------------------------------------------------------------
(* GormMailStore helpers: the JSON text of tags and attachments *)

RECURSIVE JoinTags(_)
JoinTags(v) ==
    IF v = <<>> THEN <<>>
    ELSE <<Q>> \o Head(v) \o <<Q>> \o
         (IF Tail(v) = <<>> THEN <<>> ELSE <<",">> \o JoinTags(Tail(v)))

\* json.Marshal of a []string
MarshalTags(v) == <<"[">> \o JoinTags(v) \o <<"]">>

\* json.Marshal of one attachment value
MarshalValue(val, hp) ==
    IF val.kind = "ref" THEN <<"{", Q, "n", Q, ":", Digit(hp[val.n]), "}">>
    ELSE IF val.kind = "map" THEN <<"{", Q, "n", Q, ":", Digit(val.n), "}">>
    ELSE <<Digit(val.n)>>

RECURSIVE JoinPairs(_, _, _)
JoinPairs(keys, m, hp) ==
    IF keys = <<>> THEN <<>>
    ELSE <<Q, Head(keys), Q, ":">> \o MarshalValue(m[Head(keys)], hp) \o
         (IF Tail(keys) = <<>> THEN <<>> ELSE <<",">> \o JoinPairs(Tail(keys), m, hp))

\* json.Marshal of a map[string]interface{}: the keys in sorted order
MarshalAttachments(m, hp) ==
    <<"{">> \o JoinPairs(SelectSeq(AttKeys, LAMBDA k : k \in DOMAIN m), m, hp) \o <<"}">>

\* the elements of a JSON array of strings, given the text between the brackets
RECURSIVE SplitTags(_)
SplitTags(t) ==
    IF t = <<>> THEN <<>>
    ELSE LET close == CHOOSE j \in 2..Len(t) :
                          t[j] = Q /\ \A k \in 2..(j - 1) : t[k] # Q
             rest == SubSeq(t, close + 1, Len(t))
         IN  <<SubSeq(t, 2, close - 1)>> \o
             (IF rest = <<>> THEN <<>> ELSE SplitTags(Tail(rest)))

\* json.Unmarshal into a []string
UnmarshalTags(text) == SplitTags(SubSeq(text, 2, Len(text) - 1))

\* the members of a JSON object, given the text after the opening brace
RECURSIVE ParsePairs(_)
ParsePairs(t) ==
    IF t[1] = "}" THEN <<>>
    ELSE LET key == t[2]
             nested == t[5] = "{"
             val == IF nested THEN MapVal(DigitValue(t[10])) ELSE FloatVal(DigitValue(t[5]))
             rest == SubSeq(t, IF nested THEN 12 ELSE 6, Len(t))
             more == IF rest[1] = "," THEN ParsePairs(Tail(rest)) ELSE <<>>
         IN  [k \in {key} \cup DOMAIN more |-> IF k = key THEN val ELSE more[k]]

\* json.Unmarshal into a map[string]interface{}
UnmarshalAttachments(text) == ParsePairs(Tail(text))

\* json.Marshal(mail.Attachments) returns no error
Marshalable(mail) ==
    \/ mail.Attachments.nil
    \/ \A k \in DOMAIN mail.Attachments.m : mail.Attachments.m[k].kind # "chan"

\* a mailToEntity that leaves the column of a nil attachment map or a nil tag
\* list empty
mailToEntityNilAsEmpty(mail, hp) ==
    [ID |-> mail.ID, SenderID |-> mail.SenderID, RecipientID |-> mail.RecipientID,
     Title |-> mail.Title, Content |-> mail.Content, ReadStatus |-> mail.ReadStatus,
     CreateTime |-> mail.CreateTime, ExpireTime |-> mail.ExpireTime,
     Attachments |-> IF ~mail.Attachments.nil
                     THEN MarshalAttachments(mail.Attachments.m, hp)
                     ELSE <<>>,
     Tags |-> IF ~mail.Tags.nil THEN MarshalTags(mail.Tags.v) ELSE <<>>]

\* mailToEntity: nil attachments are written "{}", nil tags "[]"
mailToEntity(mail, hp) ==
    [ID |-> mail.ID, SenderID |-> mail.SenderID, RecipientID |-> mail.RecipientID,
     Title |-> mail.Title, Content |-> mail.Content, ReadStatus |-> mail.ReadStatus,
     CreateTime |-> mail.CreateTime, ExpireTime |-> mail.ExpireTime,
     Attachments |-> IF ~mail.Attachments.nil
                     THEN MarshalAttachments(mail.Attachments.m, hp)
                     ELSE <<"{", "}">>,
     Tags |-> IF ~mail.Tags.nil THEN MarshalTags(mail.Tags.v) ELSE <<"[", "]">>]

\* entityToMail: an empty column is left nil, anything else is parsed
entityToMail(entity) ==
    [ID |-> entity.ID, SenderID |-> entity.SenderID, RecipientID |-> entity.RecipientID,
     Title |-> entity.Title, Content |-> entity.Content, ReadStatus |-> entity.ReadStatus,
     CreateTime |-> entity.CreateTime, ExpireTime |-> entity.ExpireTime,
     Attachments |-> IF entity.Attachments # <<>>
                     THEN Att(UnmarshalAttachments(entity.Attachments))
                     ELSE NilAtt,
     Tags |-> IF entity.Tags # <<>> THEN Tags(UnmarshalTags(entity.Tags)) ELSE NilTags]

-----------------------------------------------------------------------------
(* What a call returned.  err is the kind of the error: the code builds its  *)
(* errors from messages, "... cannot be nil" / "... cannot be empty" are     *)
(* InvalidArgument, "... not found" is NotFound, a wrapped database error is *)
(* StorageError.                                                             *)

NoError == ""
InvalidArgument == "InvalidArgument"
NotFound == "NotFound"
StorageError == "StorageError"
SerializationError == "SerializationError"

\* op: the operation; mail, batch: the caller's message or list of messages
\* after the call; id, rid, f, page, size, t: the other arguments; out, outs,
\* ids, total, count: the results
BaseRet ==
    [op |-> "none", err |-> NoError, mail |-> NilMailPtr, id |-> <<>>, rid |-> "",
     f |-> NilFilter, page |-> 0, size |-> 0, t |-> 0, batch |-> <<>>,
     out |-> NilMailPtr, outs |-> <<>>, ids |-> <<>>, total |-> 0, count |-> 0]

Put(tbl, k, v) == [x \in DOMAIN tbl \cup {k} |-> IF x = k THEN v ELSE tbl[x]]

-----------------------------------------------------------------------------
(* MemoryMailStore: every operation runs under s.mu for its whole duration *)

\* a CreateMail that files the message under the id it came with
MemCreateMailUnderGivenId(mp) ==
    /\ IF mp.nil
       THEN /\ retM' = [BaseRet EXCEPT !.op = "CreateMail", !.err = InvalidArgument]
            /\ UNCHANGED <<mails, counter>>
       ELSE LET gen == mp.val.ID = <<>>
                c2 == IF gen THEN counter + 1 ELSE counter
                m2 == IF gen THEN [mp.val EXCEPT !.ID = GenerateID(now, c2)] ELSE mp.val
            IN  /\ counter' = c2
                /\ mails' = Put(mails, mp.val.ID, copyMail(m2))
                /\ retM' = [BaseRet EXCEPT !.op = "CreateMail", !.mail = Ptr(m2),
                                           !.id = m2.ID]

MemCreateMail(mp) ==
    /\ IF mp.nil
       THEN /\ retM' = [BaseRet EXCEPT !.op = "CreateMail", !.err = InvalidArgument]
            /\ UNCHANGED <<mails, counter>>
       ELSE LET gen == mp.val.ID = <<>>
                c2 == IF gen THEN counter + 1 ELSE counter
                m2 == IF gen THEN [mp.val EXCEPT !.ID = GenerateID(now, c2)] ELSE mp.val
            IN  /\ counter' = c2
                /\ mails' = Put(mails, m2.ID, copyMail(m2))
                /\ retM' = [BaseRet EXCEPT !.op = "CreateMail", !.mail = Ptr(m2),
                                           !.id = m2.ID]

MemGetMail(id) ==
    /\ retM' = IF id \notin DOMAIN mails
               THEN [BaseRet EXCEPT !.op = "GetMail", !.id = id, !.err = NotFound]
               ELSE [BaseRet EXCEPT !.op = "GetMail", !.id = id,
                                    !.out = Ptr(copyMail(mails[id]))]
    /\ UNCHANGED <<mails, counter>>

\* UpdateMail that keeps the stored tags when the given message has none
MemUpdateMailMerge(mp) ==
    /\ UNCHANGED counter
    /\ IF mp.nil \/ mp.val.ID = <<>>
       THEN /\ retM' = [BaseRet EXCEPT !.op = "UpdateMail", !.mail = mp,
                                       !.err = InvalidArgument]
            /\ UNCHANGED mails
       ELSE IF mp.val.ID \notin DOMAIN mails
       THEN /\ retM' = [BaseRet EXCEPT !.op = "UpdateMail", !.mail = mp, !.err = NotFound]
            /\ UNCHANGED mails
       ELSE /\ mails' = [mails EXCEPT ![mp.val.ID] =
                            IF mp.val.Tags.nil
                            THEN [copyMail(mp.val) EXCEPT !.Tags = mails[mp.val.ID].Tags]
                            ELSE copyMail(mp.val)]
            /\ retM' = [BaseRet EXCEPT !.op = "UpdateMail", !.mail = mp]

MemUpdateMail(mp) ==
    /\ UNCHANGED counter
    /\ IF mp.nil \/ mp.val.ID = <<>>
       THEN /\ retM' = [BaseRet EXCEPT !.op = "UpdateMail", !.mail = mp,
                                       !.err = InvalidArgument]
            /\ UNCHANGED mails
       ELSE IF mp.val.ID \notin DOMAIN mails
       THEN /\ retM' = [BaseRet EXCEPT !.op = "UpdateMail", !.mail = mp, !.err = NotFound]
            /\ UNCHANGED mails
       ELSE /\ mails' = [mails EXCEPT ![mp.val.ID] = copyMail(mp.val)]
            /\ retM' = [BaseRet EXCEPT !.op = "UpdateMail", !.mail = mp]

MemDeleteMail(id) ==
    /\ UNCHANGED counter
    /\ IF id \notin DOMAIN mails
       THEN /\ retM' = [BaseRet EXCEPT !.op = "DeleteMail", !.id = id, !.err = NotFound]
            /\ UNCHANGED mails
       ELSE /\ mails' = Restrict(mails, DOMAIN mails \ {id})
            /\ retM' = [BaseRet EXCEPT !.op = "DeleteMail", !.id = id]

\* the loop of MemoryMailStore.CreateBatchMails over the rest of the list;
\* st: the table, the id counter, the ids and the caller's entries so far
RECURSIVE MemBatch(_, _, _)
MemBatch(st, ms, t) ==
    IF ms = <<>> THEN st
    ELSE LET mp == Head(ms)
             gen == mp.val.ID = <<>>
             c2 == IF gen THEN st.counter + 1 ELSE st.counter
             m2 == IF gen THEN [mp.val EXCEPT !.ID = GenerateID(t, c2)] ELSE mp.val
         IN  IF mp.nil
             THEN MemBatch([st EXCEPT !.batch = Append(@, mp)], Tail(ms), t)
             ELSE MemBatch([mails |-> Put(st.mails, m2.ID, copyMail(m2)),
                            counter |-> c2,
                            ids |-> Append(st.ids, m2.ID),
                            batch |-> Append(st.batch, Ptr(m2))], Tail(ms), t)

MemCreateBatchMails(ms) ==
    /\ IF Len(ms) = 0
       THEN /\ retM' = [BaseRet EXCEPT !.op = "CreateBatchMails"]
            /\ UNCHANGED <<mails, counter>>
       ELSE LET r == MemBatch([mails |-> mails, counter |-> counter, ids |-> <<>>,
                               batch |-> <<>>], ms, now)
            IN  /\ mails' = r.mails
                /\ counter' = r.counter
                /\ retM' = [BaseRet EXCEPT !.op = "CreateBatchMails", !.ids = r.ids,
                                           !.batch = r.batch]

\* DeleteMailsByRecipient without the test for an empty recipient
MemDeleteMailsByRecipientAny(rid) ==
    /\ UNCHANGED counter
    /\ LET toDelete == {id \in DOMAIN mails : mails[id].RecipientID = rid}
       IN  /\ mails' = Restrict(mails, DOMAIN mails \ toDelete)
           /\ retM' = [BaseRet EXCEPT !.op = "DeleteMailsByRecipient", !.rid = rid]

MemDeleteMailsByRecipient(rid) ==
    /\ UNCHANGED counter
    /\ IF rid = ""
       THEN /\ retM' = [BaseRet EXCEPT !.op = "DeleteMailsByRecipient", !.rid = rid,
                                       !.err = InvalidArgument]
            /\ UNCHANGED mails
       ELSE LET toDelete == {id \in DOMAIN mails : mails[id].RecipientID = rid}
            IN  /\ mails' = Restrict(mails, DOMAIN mails \ toDelete)
                /\ retM' = [BaseRet EXCEPT !.op = "DeleteMailsByRecipient", !.rid = rid]

\* toDelete without the IsZero test: a message that never expires is collected
MemExpiredZeroToo(tbl, beforeTime) ==
    {id \in DOMAIN tbl : tbl[id].ExpireTime < beforeTime}

\* the ids MemoryMailStore.DeleteExpiredMails collects in toDelete
MemExpired(tbl, beforeTime) ==
    {id \in DOMAIN tbl : tbl[id].ExpireTime # 0 /\ tbl[id].ExpireTime < beforeTime}

MemDeleteExpiredMails(beforeTime) ==
    LET toDelete == MemExpired(mails, beforeTime)
    IN  /\ mails' = Restrict(mails, DOMAIN mails \ toDelete)
        /\ retM' = [BaseRet EXCEPT !.op = "DeleteExpiredMails", !.t = beforeTime,
                                   !.count = Cardinality(toDelete)]
        /\ UNCHANGED counter

\* the messages of a page: copies, made while the matches are collected
MemPage(order, page, size) ==
    LET ids == PageSlice(order, coercePage(page), coerceSize(size))
    IN  [i \in 1..Len(ids) |-> copyMail(mails[ids[i]])]

MemGetMailsByRecipient(rid, page, size) ==
    /\ \E order \in SortedOrders(mails, {id \in DOMAIN mails : mails[id].RecipientID = rid}) :
           retM' = [BaseRet EXCEPT !.op = "GetMailsByRecipient", !.rid = rid,
                                   !.page = page, !.size = size,
                                   !.outs = MemPage(order, page, size),
                                   !.total = Len(order)]
    /\ UNCHANGED <<mails, counter>>

MemQueryMails(f, page, size) ==
    /\ \E order \in SortedOrders(mails, {id \in DOMAIN mails : matchMail(mails[id], f, now)}) :
           retM' = [BaseRet EXCEPT !.op = "QueryMails", !.f = f,
                                   !.page = page, !.size = size,
                                   !.outs = MemPage(order, page, size),
                                   !.total = Len(order)]
    /\ UNCHANGED <<mails, counter>>

MemCountUnreadMails(rid) ==
    /\ retM' = [BaseRet EXCEPT !.op = "CountUnreadMails", !.rid = rid,
                    !.count = Cardinality({id \in DOMAIN mails :
                        mails[id].RecipientID = rid /\ ~mails[id].ReadStatus})]
    /\ UNCHANGED <<mails, counter>>

MemCountMailsWithAttachments(rid) ==
    /\ retM' = [BaseRet EXCEPT !.op = "CountMailsWithAttachments", !.rid = rid,
                    !.count = Cardinality({id \in DOMAIN mails :
                        /\ mails[id].RecipientID = rid
                        /\ ~mails[id].Attachments.nil
                        /\ Cardinality(DOMAIN mails[id].Attachments.m) > 0})]
    /\ UNCHANGED <<mails, counter>>

-----------------------------------------------------------------------------
(* GormMailStore: each operation is the statements it sends to the database *)

\* the id GormMailStore.CreateMail makes up for a message without one
GormGenerateID(t) == <<"mail_", Digit(t)>>

GormCreateMail(mp) ==
    IF mp.nil
    THEN /\ retG' = [BaseRet EXCEPT !.op = "CreateMail", !.err = InvalidArgument]
         /\ UNCHANGED rows
    ELSE LET m2 == IF mp.val.ID = <<>> THEN [mp.val EXCEPT !.ID = GormGenerateID(now)]
                   ELSE mp.val
             entity == mailToEntity(m2, heap)
         IN  IF ~Marshalable(m2)
             THEN /\ retG' = [BaseRet EXCEPT !.op = "CreateMail", !.mail = Ptr(m2),
                                             !.err = SerializationError]
                  /\ UNCHANGED rows
             ELSE IF m2.ID \in DOMAIN rows
             THEN \* INSERT fails on the primary key
                  /\ retG' = [BaseRet EXCEPT !.op = "CreateMail", !.mail = Ptr(m2),
                                             !.err = StorageError]
                  /\ UNCHANGED rows
             ELSE /\ rows' = Put(rows, m2.ID, entity)
                  /\ retG' = [BaseRet EXCEPT !.op = "CreateMail", !.mail = Ptr(m2),
                                             !.id = m2.ID]

GormGetMail(id) ==
    /\ retG' = IF id = <<>>
               THEN [BaseRet EXCEPT !.op = "GetMail", !.id = id, !.err = InvalidArgument]
               ELSE IF id \notin DOMAIN rows
               THEN [BaseRet EXCEPT !.op = "GetMail", !.id = id, !.err = NotFound]
               ELSE [BaseRet EXCEPT !.op = "GetMail", !.id = id,
                                    !.out = Ptr(entityToMail(rows[id]))]
    /\ UNCHANGED rows

GormUpdateMail(mp) ==
    IF mp.nil \/ mp.val.ID = <<>>
    THEN /\ retG' = [BaseRet EXCEPT !.op = "UpdateMail", !.mail = mp,
                                    !.err = InvalidArgument]
         /\ UNCHANGED rows
    ELSE IF mp.val.ID \notin DOMAIN rows
    THEN /\ retG' = [BaseRet EXCEPT !.op = "UpdateMail", !.mail = mp, !.err = NotFound]
         /\ UNCHANGED rows
    ELSE IF ~Marshalable(mp.val)
    THEN /\ retG' = [BaseRet EXCEPT !.op = "UpdateMail", !.mail = mp,
                                    !.err = SerializationError]
         /\ UNCHANGED rows
    ELSE /\ rows' = Put(rows, mp.val.ID, mailToEntity(mp.val, heap))
         /\ retG' = [BaseRet EXCEPT !.op = "UpdateMail", !.mail = mp]

\* DeleteMail that does not look at RowsAffected
GormDeleteMailQuiet(id) ==
    IF id = <<>>
    THEN /\ retG' = [BaseRet EXCEPT !.op = "DeleteMail", !.id = id,
                                    !.err = InvalidArgument]
         /\ UNCHANGED rows
    ELSE /\ rows' = Restrict(rows, DOMAIN rows \ {id})
         /\ retG' = [BaseRet EXCEPT !.op = "DeleteMail", !.id = id]

GormDeleteMail(id) ==
    IF id = <<>>
    THEN /\ retG' = [BaseRet EXCEPT !.op = "DeleteMail", !.id = id,
                                    !.err = InvalidArgument]
         /\ UNCHANGED rows
    ELSE IF id \notin DOMAIN rows
    THEN /\ retG' = [BaseRet EXCEPT !.op = "DeleteMail", !.id = id, !.err = NotFound]
         /\ UNCHANGED rows
    ELSE /\ rows' = Restrict(rows, DOMAIN rows \ {id})
         /\ retG' = [BaseRet EXCEPT !.op = "DeleteMail", !.id = id]

\* the loop of GormMailStore.CreateBatchMails over the rest of the list; it
\* stops at the first message that cannot be converted
RECURSIVE GormBatch(_, _, _, _)
GormBatch(st, ms, t, hp) ==
    IF ms = <<>> THEN st
    ELSE LET mp == Head(ms)
             m2 == IF mp.val.ID = <<>>
                   THEN [mp.val EXCEPT !.ID = <<"mail_", Digit(t), "_", Digit(Len(st.ids))>>]
                   ELSE mp.val
         IN  IF mp.nil
             THEN GormBatch([st EXCEPT !.batch = Append(@, mp)], Tail(ms), t, hp)
             ELSE IF ~Marshalable(m2)
             THEN [st EXCEPT !.ok = FALSE, !.batch = Append(@, Ptr(m2)) \o Tail(ms)]
             ELSE GormBatch([ok |-> TRUE,
                             entities |-> Append(st.entities, mailToEntity(m2, hp)),
                             ids |-> Append(st.ids, m2.ID),
                             batch |-> Append(st.batch, Ptr(m2))], Tail(ms), t, hp)

\* tx.Create(&entities): one INSERT of all the rows, which fails as a whole on
\* a primary key that is in the table or twice in the statement
InsertFails(tbl, entities) ==
    \/ \E i \in 1..Len(entities) : entities[i].ID \in DOMAIN tbl
    \/ \E i, j \in 1..Len(entities) : i # j /\ entities[i].ID = entities[j].ID

Inserted(tbl, entities) ==
    [id \in DOMAIN tbl \cup {entities[i].ID : i \in 1..Len(entities)} |->
        IF id \in DOMAIN tbl THEN tbl[id]
        ELSE entities[CHOOSE i \in 1..Len(entities) : entities[i].ID = id]]

\* CreateBatchMails whose rows stay in the table when the commit fails
GormCreateBatchMailsNoRollback(ms, fault) ==
    LET r == GormBatch([ok |-> TRUE, entities |-> <<>>, ids |-> <<>>, batch |-> <<>>],
                       ms, now, heap)
        failed(err, list) == /\ retG' = [BaseRet EXCEPT !.op = "CreateBatchMails",
                                                         !.err = err, !.batch = list]
                             /\ UNCHANGED rows
    IN  IF Len(ms) = 0
        THEN /\ retG' = [BaseRet EXCEPT !.op = "CreateBatchMails"]
             /\ UNCHANGED rows
        ELSE IF fault = "begin" THEN failed(StorageError, ms)
        ELSE IF ~r.ok THEN failed(SerializationError, r.batch)
        ELSE IF Len(r.entities) > 0 /\ InsertFails(rows, r.entities)
        THEN failed(StorageError, r.batch)
        ELSE /\ rows' = Inserted(rows, r.entities)
             /\ retG' = [BaseRet EXCEPT !.op = "CreateBatchMails",
                                        !.ids = IF fault = "commit" THEN <<>> ELSE r.ids,
                                        !.err = IF fault = "commit" THEN StorageError
                                                ELSE NoError,
                                        !.batch = r.batch]

\* fault: what the database refuses, "begin", "commit" or "none"
GormCreateBatchMails(ms, fault) ==
    LET r == GormBatch([ok |-> TRUE, entities |-> <<>>, ids |-> <<>>, batch |-> <<>>],
                       ms, now, heap)
        failed(err, list) == /\ retG' = [BaseRet EXCEPT !.op = "CreateBatchMails",
                                                         !.err = err, !.batch = list]
                             /\ UNCHANGED rows
    IN  IF Len(ms) = 0
        THEN /\ retG' = [BaseRet EXCEPT !.op = "CreateBatchMails"]
             /\ UNCHANGED rows
        ELSE IF fault = "begin" THEN failed(StorageError, ms)
        ELSE IF ~r.ok THEN failed(SerializationError, r.batch)
        ELSE IF Len(r.entities) > 0 /\ InsertFails(rows, r.entities)
        THEN failed(StorageError, r.batch)
        ELSE IF fault = "commit" THEN failed(StorageError, r.batch)
        ELSE /\ rows' = Inserted(rows, r.entities)
             /\ retG' = [BaseRet EXCEPT !.op = "CreateBatchMails", !.ids = r.ids,
                                        !.batch = r.batch]

GormDeleteMailsByRecipient(rid) ==
    IF rid = ""
    THEN /\ retG' = [BaseRet EXCEPT !.op = "DeleteMailsByRecipient", !.rid = rid,
                                    !.err = InvalidArgument]
         /\ UNCHANGED rows
    ELSE /\ rows' = Restrict(rows, {id \in DOMAIN rows : rows[id].RecipientID # rid})
         /\ retG' = [BaseRet EXCEPT !.op = "DeleteMailsByRecipient", !.rid = rid]

\* the rows of "expire_time != ? AND expire_time < ?" with the zero time and beforeTime
GormExpired(tbl, beforeTime) ==
    {id \in DOMAIN tbl : tbl[id].ExpireTime # 0 /\ tbl[id].ExpireTime < beforeTime}

GormDeleteExpiredMails(beforeTime) ==
    LET gone == GormExpired(rows, beforeTime)
    IN  /\ rows' = Restrict(rows, DOMAIN rows \ gone)
        /\ retG' = [BaseRet EXCEPT !.op = "DeleteExpiredMails", !.t = beforeTime,
                                   !.count = Cardinality(gone)]

\* a WHERE clause that takes a row expiring at the instant of the query as expired
GormWhereExpiredAtNow(row, filter, t) ==
    \/ filter.nil
    \/ /\ filter.SenderID # "" => row.SenderID = filter.SenderID
       /\ filter.RecipientID # "" => row.RecipientID = filter.RecipientID
       /\ filter.ReadStatus.set => row.ReadStatus = filter.ReadStatus.v
       /\ filter.StartTime.set => row.CreateTime >= filter.StartTime.v
       /\ filter.EndTime.set => row.CreateTime <= filter.EndTime.v
       /\ filter.ExpiredOnly => (row.ExpireTime # 0 /\ row.ExpireTime <= t)
       /\ \A i \in 1..Len(filter.Tags) : Contains(row.Tags, filter.Tags[i])

\* the WHERE clause QueryMails builds: every condition is ANDed, one LIKE per tag
GormWhere(row, filter, t) ==
    \/ filter.nil
    \/ /\ filter.SenderID # "" => row.SenderID = filter.SenderID
       /\ filter.RecipientID # "" => row.RecipientID = filter.RecipientID
       /\ filter.ReadStatus.set => row.ReadStatus = filter.ReadStatus.v
       /\ filter.StartTime.set => row.CreateTime >= filter.StartTime.v
       /\ filter.EndTime.set => row.CreateTime <= filter.EndTime.v
       /\ filter.ExpiredOnly => (row.ExpireTime # 0 /\ row.ExpireTime < t)
       /\ \A i \in 1..Len(filter.Tags) : Contains(row.Tags, filter.Tags[i])

\* ORDER BY create_time DESC OFFSET (page-1)*size LIMIT size, read back as messages;
\* SQL leaves the order of rows with equal create_time open
GormPage(order, page, size) ==
    LET p == coercePage(page)
        sz == coerceSize(size)
        ids == SubSeq(order, (p - 1) * sz + 1, Min((p - 1) * sz + sz, Len(order)))
    IN  [i \in 1..Len(ids) |-> entityToMail(rows[ids[i]])]

GormGetMailsByRecipient(rid, page, size) ==
    /\ UNCHANGED rows
    /\ IF rid = ""
       THEN retG' = [BaseRet EXCEPT !.op = "GetMailsByRecipient", !.rid = rid,
                         !.page = page, !.size = size, !.err = InvalidArgument]
       ELSE LET hit == {id \in DOMAIN rows : rows[id].RecipientID = rid}
            IN  IF Cardinality(hit) = 0
                THEN retG' = [BaseRet EXCEPT !.op = "GetMailsByRecipient", !.rid = rid,
                                  !.page = page, !.size = size]
                ELSE \E order \in SortedOrders(rows, hit) :
                         retG' = [BaseRet EXCEPT !.op = "GetMailsByRecipient",
                                      !.rid = rid, !.page = page, !.size = size,
                                      !.outs = GormPage(order, page, size),
                                      !.total = Cardinality(hit)]

GormQueryMails(f, page, size) ==
    /\ UNCHANGED rows
    /\ LET hit == {id \in DOMAIN rows : GormWhere(rows[id], f, now)}
       IN  IF Cardinality(hit) = 0
           THEN retG' = [BaseRet EXCEPT !.op = "QueryMails", !.f = f,
                             !.page = page, !.size = size]
           ELSE \E order \in SortedOrders(rows, hit) :
                    retG' = [BaseRet EXCEPT !.op = "QueryMails", !.f = f,
                                 !.page = page, !.size = size,
                                 !.outs = GormPage(order, page, size),
                                 !.total = Cardinality(hit)]

GormCountUnreadMails(rid) ==
    /\ UNCHANGED rows
    /\ retG' = IF rid = ""
               THEN [BaseRet EXCEPT !.op = "CountUnreadMails", !.rid = rid,
                                    !.err = InvalidArgument]
               ELSE [BaseRet EXCEPT !.op = "CountUnreadMails", !.rid = rid,
                         !.count = Cardinality({id \in DOMAIN rows :
                             rows[id].RecipientID = rid /\ rows[id].ReadStatus = FALSE})]

\* a count that takes every row of the recipient
GormCountMailsWithAttachmentsAnyRow(rid) ==
    /\ UNCHANGED rows
    /\ retG' = IF rid = ""
               THEN [BaseRet EXCEPT !.op = "CountMailsWithAttachments", !.rid = rid,
                                    !.err = InvalidArgument]
               ELSE [BaseRet EXCEPT !.op = "CountMailsWithAttachments", !.rid = rid,
                         !.count = Cardinality({id \in DOMAIN rows :
                             rows[id].RecipientID = rid})]

GormCountMailsWithAttachments(rid) ==
    /\ UNCHANGED rows
    /\ retG' = IF rid = ""
               THEN [BaseRet EXCEPT !.op = "CountMailsWithAttachments", !.rid = rid,
                                    !.err = InvalidArgument]
               ELSE [BaseRet EXCEPT !.op = "CountMailsWithAttachments", !.rid = rid,
                         !.count = Cardinality({id \in DOMAIN rows :
                             /\ rows[id].RecipientID = rid
                             /\ rows[id].Attachments # <<>>
                             /\ rows[id].Attachments # <<"[", "]">>
                             /\ rows[id].Attachments # <<"{", "}">>})]

\* json.MarshalIndent of one message: the Mail struct has no field tags, so
\* every field is written under its name; a nil map and a nil slice are null
JsonNull == <<"n", "u", "l", "l">>
ExportEntry(mail, hp) ==
    [ID |-> mail.ID, SenderID |-> mail.SenderID, RecipientID |-> mail.RecipientID,
     Title |-> mail.Title, Content |-> mail.Content, ReadStatus |-> mail.ReadStatus,
     CreateTime |-> mail.CreateTime, ExpireTime |-> mail.ExpireTime,
     Attachments |-> IF mail.Attachments.nil THEN JsonNull
                     ELSE MarshalAttachments(mail.Attachments.m, hp),
     Tags |-> IF mail.Tags.nil THEN JsonNull ELSE MarshalTags(mail.Tags.v)]

\* the document is the array of the entries, in the order of the slice
MemExportMailLogs(f) ==
    /\ \E order \in SortedOrders(mails, {id \in DOMAIN mails : matchMail(mails[id], f, now)}) :
           LET matchedMails == [i \in 1..Len(order) |-> copyMail(mails[order[i]])]
           IN  IF \E i \in 1..Len(order) : ~Marshalable(matchedMails[i])
               THEN retM' = [BaseRet EXCEPT !.op = "ExportMailLogs", !.f = f,
                                            !.err = SerializationError]
               ELSE retM' = [BaseRet EXCEPT !.op = "ExportMailLogs", !.f = f,
                                 !.outs = [i \in 1..Len(order) |->
                                              ExportEntry(matchedMails[i], heap)]]
    /\ UNCHANGED <<mails, counter>>

\* QueryMails(ctx, filter, 1, 10000), then the messages it returned as a document
GormExportMailLogs(f) ==
    /\ UNCHANGED rows
    /\ LET hit == {id \in DOMAIN rows : GormWhere(rows[id], f, now)}
       IN  \E order \in SortedOrders(rows, hit) :
               LET queried == GormPage(order, 1, ExportLimit)
               IN  retG' = [BaseRet EXCEPT !.op = "ExportMailLogs", !.f = f,
                                !.outs = [i \in 1..Len(queried) |->
                                             ExportEntry(queried[i], heap)]]

-----------------------------------------------------------------------------
(* The callers' inputs *)

TagA == <<"a">>
TagB == <<"b">>
TagAB == <<"a", "b">>

P1 == Mail(<<"a">>, "sys", "u1", "t1", "c1", NilAtt, FALSE, 2, 0, Tags(<<TagA>>))
P2 == Mail(<<"b">>, "sys", "u1", "t2", "c2", Att([g |-> IntVal(1)]), FALSE, 2, 1,
           Tags(<<TagAB>>))
P3 == Mail(<<>>, "p1", "u2", "t3", "c3", Att([i |-> RefVal(1)]), TRUE, 1, 2,
           Tags(<<TagA, TagB>>))
P4 == Mail(<<"a">>, "p1", "", "t4", "c4", Att(<<>>), FALSE, 3, 3, NilTags)

MailPool == {P1, P2, P3, P4}
MailPtrs == {NilMailPtr} \cup {Ptr(m) : m \in MailPool}
IdPool == {<<>>, <<"a">>, <<"b">>}
RecipientPool == {"", "u1", "u2"}

FilterPool ==
    {NilFilter,
     EmptyFilter,
     Filter("sys", "", UnsetBool, Unset, Unset, FALSE, <<>>),
     Filter("", "u1", UnsetBool, Unset, Unset, FALSE, <<>>),
     Filter("", "", Some(FALSE), Unset, Unset, FALSE, <<>>),
     Filter("", "", UnsetBool, Some(2), Some(2), FALSE, <<>>),
     Filter("", "", UnsetBool, Unset, Unset, TRUE, <<>>),
     Filter("", "", UnsetBool, Unset, Unset, FALSE, <<TagA>>),
     Filter("", "", UnsetBool, Unset, Unset, FALSE, <<TagA, TagB>>),
     Filter("", "u1", UnsetBool, Unset, Unset, FALSE, <<TagB, TagA>>)}

PagePool == {0, 1, 2}
SizePool == {0, 1, 2}
Times == 1..MaxTime

-----------------------------------------------------------------------------
(* The state after NewMemoryMailStore, NewGormMailStore, NewDefaultMailManager *)

Threads == {"t1", "t2"}

\* the goroutines that call the stores at the same time
Goroutines == {"g1", "g2"}

\* s.mu with no holder
FreeMu == [w |-> "", r |-> {}]

\* a goroutine that is in no call.  op, store: the operation and the store it
\* is called on; pc: how far it has come; mail, id, rid, f, t, ms: its
\* arguments; todo: the entries its loop has still to visit; got: the message
\* it has read; ids, outs, total, count, err: what it returns; partial: the
\* store was part way through another goroutine's operation when it read
IdleCall ==
    [op |-> "none", store |-> "", pc |-> "idle", mail |-> NilMailPtr, id |-> <<>>,
     rid |-> "", f |-> NilFilter, t |-> 0, ms |-> <<>>, todo |-> <<>>,
     got |-> NilMailPtr, ids |-> <<>>, outs |-> <<>>, total |-> 0, count |-> 0,
     err |-> NoError, partial |-> FALSE]

IdleScan ==
    [active |-> FALSE, kind |-> "", f |-> NilFilter, rid |-> "", size |-> 0,
     next |-> 0, acc |-> <<>>, total |-> 0, done |-> FALSE]

Init ==
    /\ mails = <<>>
    /\ counter = 0
    /\ rows = <<>>
    /\ heap = [r \in Refs |-> 1]
    /\ now = 1
    /\ retM = BaseRet
    /\ retG = BaseRet
    /\ scan = IdleScan
    /\ smu = FreeMu
    /\ calls = [g \in Goroutines |-> IdleCall]
    /\ mu = "free"
    /\ cpc = [c \in Threads |-> "idle"]
    /\ cleanupTick = 0
    /\ tickers = <<>>
    /\ loops = <<>>

\* time passes
AdvanceClock ==
    /\ now < MaxTime
    /\ now' = now + 1
    /\ UNCHANGED <<mails, counter, rows, heap, smu, calls, retM, retG, scan, schedVars>>

-----------------------------------------------------------------------------
(* Both stores behind the MailStore interface, driven with the same calls by *)
(* one caller, who makes a call, holds what it returned, and lets go of it   *)

Quiet == retM.op = "none" /\ retG.op = "none"

\* the callers ask for a bounded number of ids: a call with a message that
\* has no id is made while the id generator's counter is below the bound
NeedsID(mp) == ~mp.nil /\ mp.val.ID = <<>>
IdsLeft(ms, bound) == (\E i \in 1..Len(ms) : NeedsID(ms[i])) => counter < bound

CreateMail(mp) ==
    /\ Quiet
    /\ MemCreateMail(mp) /\ GormCreateMail(mp)
    /\ UNCHANGED <<heap, smu, calls, now, scan, schedVars>>

GetMail(id) ==
    /\ Quiet
    /\ MemGetMail(id) /\ GormGetMail(id)
    /\ UNCHANGED <<heap, smu, calls, now, scan, schedVars>>

CreateBatchMails(ms, fault) ==
    /\ Quiet
    /\ MemCreateBatchMails(ms) /\ GormCreateBatchMails(ms, fault)
    /\ UNCHANGED <<heap, smu, calls, now, scan, schedVars>>

UpdateMail(mp) ==
    /\ Quiet
    /\ MemUpdateMail(mp) /\ GormUpdateMail(mp)
    /\ UNCHANGED <<heap, smu, calls, now, scan, schedVars>>

DeleteMail(id) ==
    /\ Quiet
    /\ MemDeleteMail(id) /\ GormDeleteMail(id)
    /\ UNCHANGED <<heap, smu, calls, now, scan, schedVars>>

DeleteMailsByRecipient(rid) ==
    /\ Quiet
    /\ MemDeleteMailsByRecipient(rid) /\ GormDeleteMailsByRecipient(rid)
    /\ UNCHANGED <<heap, smu, calls, now, scan, schedVars>>

DeleteExpiredMails(beforeTime) ==
    /\ Quiet
    /\ MemDeleteExpiredMails(beforeTime) /\ GormDeleteExpiredMails(beforeTime)
    /\ UNCHANGED <<heap, smu, calls, now, scan, schedVars>>

GetMailsByRecipient(rid, page, size) ==
    /\ Quiet
    /\ MemGetMailsByRecipient(rid, page, size) /\ GormGetMailsByRecipient(rid, page, size)
    /\ UNCHANGED <<heap, smu, calls, now, scan, schedVars>>

QueryMails(f, page, size) ==
    /\ Quiet
    /\ MemQueryMails(f, page, size) /\ GormQueryMails(f, page, size)
    /\ UNCHANGED <<heap, smu, calls, now, scan, schedVars>>

ExportMailLogs(f) ==
    /\ Quiet
    /\ MemExportMailLogs(f) /\ GormExportMailLogs(f)
    /\ UNCHANGED <<heap, smu, calls, now, scan, schedVars>>

CountUnreadMails(rid) ==
    /\ Quiet
    /\ MemCountUnreadMails(rid) /\ GormCountUnreadMails(rid)
    /\ UNCHANGED <<heap, smu, calls, now, scan, schedVars>>

CountMailsWithAttachments(rid) ==
    /\ Quiet
    /\ MemCountMailsWithAttachments(rid) /\ GormCountMailsWithAttachments(rid)
    /\ UNCHANGED <<heap, smu, calls, now, scan, schedVars>>

\* the message the caller holds after a call: the one it passed in, or the
\* (first) one it got back
Held(ret) ==
    IF ~ret.mail.nil THEN ret.mail
    ELSE IF ~ret.out.nil THEN ret.out
    ELSE IF ret.outs # <<>> THEN Ptr(ret.outs[1])
    ELSE NilMailPtr

MutationPool == {"field", "tags", "attachments", "nested"}

\* what the caller's message looks like after the caller changed it in place
Mutated(m, kind) ==
    IF kind = "field" THEN [m EXCEPT !.Title = "changed"]
    ELSE IF kind = "tags"
    THEN [m EXCEPT !.Tags = IF m.Tags.v = <<>> THEN Tags(<<TagB>>)
                            ELSE Tags([m.Tags.v EXCEPT ![1] = <<"x">>])]
    ELSE IF kind = "attachments"
    THEN [m EXCEPT !.Attachments = Att(Put(m.Attachments.m, "g", IntVal(9)))]
    ELSE [m EXCEPT !.Attachments =
              Att([k \in DOMAIN m.Attachments.m |->
                      IF m.Attachments.m[k].kind = "map"
                      THEN MapVal(9) ELSE m.Attachments.m[k]])]

\* the nested maps the message reaches through its attachment values
RefsOf(m) == {m.Attachments.m[k].n : k \in {x \in DOMAIN m.Attachments.m :
                                               m.Attachments.m[x].kind = "ref"}}

\* the caller changes, in place, the message it holds: a field, an element of
\* its tag slice, an entry of its attachment map, or a value inside a nested map
CallerMutate(kind) ==
    /\ retM.op \in {"CreateMail", "UpdateMail", "GetMail", "GetMailsByRecipient",
                    "QueryMails"}
    /\ ~Held(retM).nil /\ ~Held(retG).nil
    /\ kind = "nested" => RefsOf(Held(retM).val) # {}
    /\ retM' = [retM EXCEPT !.op = "CallerMutate",
                            !.mail = Ptr(Mutated(Held(retM).val, kind))]
    /\ retG' = [retG EXCEPT !.op = "CallerMutate",
                            !.mail = Ptr(Mutated(Held(retG).val, kind))]
    /\ heap' = IF kind = "nested"
               THEN [r \in Refs |-> IF r \in RefsOf(Held(retM).val)
                                    THEN (IF heap[r] = 1 THEN 2 ELSE 1) ELSE heap[r]]
               ELSE heap
    /\ UNCHANGED <<mails, counter, rows, smu, calls, now, scan, schedVars>>

\* the caller lets go of what the last call returned
CallerDone ==
    /\ ~Quiet
    /\ retM' = BaseRet
    /\ retG' = BaseRet
    /\ UNCHANGED <<mails, counter, rows, heap, smu, calls, now, scan, schedVars>>

Next ==
    \/ \E mp \in MailPtrs : IdsLeft(<<mp>>, MaxGen) /\ CreateMail(mp)
    \/ \E id \in IdPool : GetMail(id)
    \/ \E mp \in MailPtrs : UpdateMail(mp)
    \/ \E id \in IdPool : DeleteMail(id)
    \/ \E rid \in RecipientPool : DeleteMailsByRecipient(rid)
    \/ \E t \in Times : DeleteExpiredMails(t)
    \/ \E rid \in RecipientPool, page \in PagePool, size \in SizePool :
           GetMailsByRecipient(rid, page, size)
    \/ \E f \in FilterPool, page \in PagePool, size \in SizePool :
           QueryMails(f, page, size)
    \/ \E rid \in RecipientPool : CountUnreadMails(rid)
    \/ \E rid \in RecipientPool : CountMailsWithAttachments(rid)
    \/ CallerDone
    \/ Quiet /\ AdvanceClock

Spec == Init /\ [][Next]_vars

\* a caller who keeps hold of the messages it passes in and gets back, and
\* changes them in place
AliasNext ==
    \/ \E mp \in MailPtrs : IdsLeft(<<mp>>, MaxGen) /\ CreateMail(mp)
    \/ \E mp \in MailPtrs : UpdateMail(mp)
    \/ \E id \in IdPool : GetMail(id)
    \/ \E rid \in RecipientPool : GetMailsByRecipient(rid, 1, 0)
    \/ QueryMails(EmptyFilter, 1, 0)
    \/ \E kind \in MutationPool : CallerMutate(kind)
    \/ CallerDone
    \/ Quiet /\ AdvanceClock

AliasSpec == Init /\ [][AliasNext]_vars

\* a caller who creates messages one at a time and in batches
P5 == Mail(<<"b">>, "sys", "u1", "t5", "c5", Att([g |-> ChanVal]), FALSE, 1, 0, NilTags)

BatchPtrs == {NilMailPtr, Ptr(P1), Ptr(P3), Ptr(P4), Ptr(P5)}

\* lists with nil entries, with messages that need an id, with an id twice and
\* with a message that cannot be encoded, first and last
BatchPool ==
    {<<>>,
     <<NilMailPtr>>,
     <<Ptr(P1)>>,
     <<Ptr(P4)>>,
     <<NilMailPtr, Ptr(P3)>>,
     <<Ptr(P3), Ptr(P3)>>,
     <<Ptr(P1), Ptr(P4)>>,
     <<Ptr(P1), Ptr(P5)>>,
     <<Ptr(P5), Ptr(P4)>>,
     <<Ptr(P3), NilMailPtr, Ptr(P1)>>}
FaultPool == {"none", "begin", "commit"}

BatchNext ==
    \/ \E ms \in BatchPool, fault \in FaultPool :
           IdsLeft(ms, MaxGen) /\ CreateBatchMails(ms, fault)
    \/ \E mp \in BatchPtrs \cup {Ptr(P2)} : IdsLeft(<<mp>>, MaxGen) /\ CreateMail(mp)
    \/ \E mp \in {Ptr(P2), Ptr(P4), Ptr(P5)} : UpdateMail(mp)
    \/ \E id \in IdPool : GetMail(id)
    \/ \E id \in IdPool : DeleteMail(id)
    \/ CallerDone
    \/ Quiet /\ AdvanceClock

BatchSpec == Init /\ [][BatchNext]_vars

\* a caller who exports the log: messages with and without tags and
\* attachments, one of them with a value that has no JSON form
ExportPool == {P1, P2, P3, P5}
ExportFilters ==
    {NilFilter,
     EmptyFilter,
     Filter("sys", "", UnsetBool, Unset, Unset, FALSE, <<>>),
     Filter("", "", UnsetBool, Unset, Unset, TRUE, <<>>),
     Filter("", "", UnsetBool, Unset, Unset, FALSE, <<TagA>>),
     Filter("", "", UnsetBool, Unset, Unset, FALSE, <<TagA, TagB>>)}

ExportNext ==
    \/ \E m \in ExportPool : IdsLeft(<<Ptr(m)>>, MaxGen) /\ CreateMail(Ptr(m))
    \/ \E id \in IdPool : DeleteMail(id)
    \/ \E f \in ExportFilters : ExportMailLogs(f)
    \/ \E f \in ExportFilters : QueryMails(f, 1, 2)
    \/ CallerDone
    \/ Quiet /\ AdvanceClock

ExportSpec == Init /\ [][ExportNext]_vars

\* a caller who lists and counts the messages of a recipient that were created
\* at different times, without attachments, with one and with an empty bag
L1 == Mail(<<"a">>, "sys", "u1", "t1", "c1", NilAtt, FALSE, 1, 0, NilTags)
L2 == Mail(<<"b">>, "sys", "u1", "t2", "c2", Att([g |-> IntVal(1)]), FALSE, 2, 0, NilTags)
L3 == Mail(<<"c">>, "sys", "u1", "t3", "c3", Att(<<>>), TRUE, 2, 0, NilTags)
L4 == Mail(<<"d">>, "sys", "u2", "t4", "c4", NilAtt, FALSE, 3, 0, NilTags)
\* the first message again, read and with an attachment
L5 == Mail(<<"a">>, "sys", "u1", "t1", "c1", Att([g |-> IntVal(1)]), TRUE, 1, 0, NilTags)

ListPool == {L1, L2, L3, L4}
ListIds == {<<"a">>, <<"b">>, <<"c">>, <<"d">>}
ListPages == {-1, 0, 1, 2, 3}
ListSizes == {-1, 0, 1, 2}
ListFilters ==
    {NilFilter,
     Filter("", "u1", UnsetBool, Unset, Unset, FALSE, <<>>),
     Filter("", "", Some(FALSE), Unset, Unset, FALSE, <<>>)}

ListNext ==
    \/ \E m \in ListPool : CreateMail(Ptr(m))
    \/ \E id \in ListIds : DeleteMail(id)
    \/ UpdateMail(Ptr(L5))
    \/ \E rid \in RecipientPool : CountUnreadMails(rid)
    \/ \E rid \in RecipientPool : CountMailsWithAttachments(rid)
    \/ \E rid \in RecipientPool, page \in ListPages, size \in ListSizes :
           GetMailsByRecipient(rid, page, size)
    \/ \E f \in ListFilters, page \in ListPages, size \in ListSizes :
           QueryMails(f, page, size)
    \/ CallerDone

ListSpec == Init /\ [][ListNext]_vars

-----------------------------------------------------------------------------
(* A client of the in-memory store that reads a result set page by page:     *)
(* pages 1, 2, ... of one query with one size, until the total is covered.   *)
(* A write to the store ends the reading.                                    *)

ScanFilters == {EmptyFilter, Filter("", "u1", UnsetBool, Unset, Unset, FALSE, <<>>)}
ScanSizes == {1, 2}

PageStore(m) ==
    /\ MemCreateMail(Ptr(m))
    /\ scan' = IdleScan
    /\ UNCHANGED <<rows, heap, smu, calls, now, retG, schedVars>>

PageDelete(id) ==
    /\ MemDeleteMail(id)
    /\ scan' = IdleScan
    /\ UNCHANGED <<rows, heap, smu, calls, now, retG, schedVars>>

ScanBegin(kind, f, rid, size) ==
    /\ ~scan.active \/ scan.done
    /\ scan' = [active |-> TRUE, kind |-> kind, f |-> f, rid |-> rid, size |-> size,
                next |-> 1, acc |-> <<>>, total |-> 0, done |-> FALSE]
    /\ UNCHANGED <<mails, counter, rows, heap, smu, calls, now, retM, retG, schedVars>>

ScanPage ==
    /\ scan.active /\ ~scan.done
    /\ IF scan.kind = "QueryMails"
       THEN MemQueryMails(scan.f, scan.next, scan.size)
       ELSE MemGetMailsByRecipient(scan.rid, scan.next, scan.size)
    /\ scan' = [scan EXCEPT !.acc = @ \o [i \in 1..Len(retM'.outs) |-> retM'.outs[i].ID],
                            !.total = retM'.total,
                            !.next = @ + 1,
                            !.done = scan.next * scan.size >= retM'.total]
    /\ UNCHANGED <<rows, heap, smu, calls, now, retG, schedVars>>

PageNext ==
    \/ \E m \in MailPool : IdsLeft(<<Ptr(m)>>, MaxGen) /\ PageStore(m)
    \/ \E id \in IdPool : PageDelete(id)
    \/ \E f \in ScanFilters, size \in ScanSizes : ScanBegin("QueryMails", f, "", size)
    \/ \E size \in ScanSizes : ScanBegin("GetMailsByRecipient", NilFilter, "u1", size)
    \/ ScanPage

PageSpec == Init /\ [][PageNext]_vars

-----------------------------------------------------------------------------
(* DefaultMailManager.ScheduleCleanup over a MemoryMailStore.  A thread's    *)
(* position: idle, rejected (about to return the error), lock (waiting for   *)
(* m.mu), locked, send (blocked in m.cleanupStop <- true), arm, unlock.      *)
(* A goroutine's position: start (about to evaluate the select), select      *)
(* (waiting on the channels it evaluated), sweep, done.                      *)

DurationPool == {-1, 0, 1}

InCall == {c \in Threads : cpc[c] \in {"lock", "locked", "send", "arm"}}

\* a check that lets an interval of zero through
SchedBeginZeroAccepted(c, duration) ==
    /\ cpc[c] = "idle"
    /\ duration >= 0 => Len(tickers) + Cardinality(InCall) < MaxCalls
    /\ cpc' = [cpc EXCEPT ![c] = IF duration < 0 THEN "rejected" ELSE "lock"]
    /\ UNCHANGED <<storeVars, mu, cleanupTick, tickers, loops>>

\* if duration <= 0 { return errors.New(...) }, else go on to m.mu.Lock()
SchedBegin(c, duration) ==
    /\ cpc[c] = "idle"
    /\ duration > 0 => Len(tickers) + Cardinality(InCall) < MaxCalls
    /\ cpc' = [cpc EXCEPT ![c] = IF duration <= 0 THEN "rejected" ELSE "lock"]
    /\ UNCHANGED <<storeVars, mu, cleanupTick, tickers, loops>>

SchedReject(c) ==
    /\ cpc[c] = "rejected"
    /\ cpc' = [cpc EXCEPT ![c] = "idle"]
    /\ UNCHANGED <<storeVars, mu, cleanupTick, tickers, loops>>

\* m.mu.Lock()
SchedLock(c) ==
    /\ cpc[c] = "lock"
    /\ mu = "free"
    /\ mu' = c
    /\ cpc' = [cpc EXCEPT ![c] = "locked"]
    /\ UNCHANGED <<storeVars, cleanupTick, tickers, loops>>

\* if m.cleanupTick != nil { m.cleanupTick.Stop(); then the send }
StopExistingNoSignal(c) ==
    /\ cpc[c] = "locked"
    /\ tickers' = IF cleanupTick # 0
                  THEN [tickers EXCEPT ![cleanupTick].stopped = TRUE]
                  ELSE tickers
    /\ cpc' = [cpc EXCEPT ![c] = "arm"]
    /\ UNCHANGED <<storeVars, mu, cleanupTick, loops>>

StopExisting(c) ==
    /\ cpc[c] = "locked"
    /\ IF cleanupTick # 0
       THEN /\ tickers' = [tickers EXCEPT ![cleanupTick].stopped = TRUE]
            /\ cpc' = [cpc EXCEPT ![c] = "send"]
       ELSE /\ cpc' = [cpc EXCEPT ![c] = "arm"]
            /\ UNCHANGED tickers
    /\ UNCHANGED <<storeVars, mu, cleanupTick, loops>>

\* m.cleanupStop <- true meets case <-m.cleanupStop: return (an unbuffered channel)
SendStopBuffered(c, l) ==
    /\ cpc[c] = "send"
    /\ l \in DOMAIN loops
    /\ cpc' = [cpc EXCEPT ![c] = "arm"]
    /\ UNCHANGED <<storeVars, mu, cleanupTick, tickers, loops>>

SendStop(c, l) ==
    /\ cpc[c] = "send"
    /\ l \in DOMAIN loops
    /\ loops[l].pc = "select"
    /\ loops' = [loops EXCEPT ![l].pc = "done"]
    /\ cpc' = [cpc EXCEPT ![c] = "arm"]
    /\ UNCHANGED <<storeVars, mu, cleanupTick, tickers>>

\* m.cleanupTick = time.NewTicker(duration); go func() {...}()
ArmTicker(c) ==
    /\ cpc[c] = "arm"
    /\ tickers' = Append(tickers, [stopped |-> FALSE, pending |-> FALSE])
    /\ cleanupTick' = Len(tickers) + 1
    /\ loops' = Append(loops, [pc |-> "start", tk |-> 0])
    /\ cpc' = [cpc EXCEPT ![c] = "unlock"]
    /\ UNCHANGED <<storeVars, mu>>

\* return nil, with the deferred m.mu.Unlock()
SchedReturn(c) ==
    /\ cpc[c] = "unlock"
    /\ mu' = "free"
    /\ cpc' = [cpc EXCEPT ![c] = "idle"]
    /\ UNCHANGED <<storeVars, cleanupTick, tickers, loops>>

\* the goroutine enters the select: m.cleanupTick.C is evaluated now
LoopSelect(l) ==
    /\ l \in DOMAIN loops
    /\ loops[l].pc = "start"
    /\ loops' = [loops EXCEPT ![l] = [pc |-> "select", tk |-> cleanupTick]]
    /\ UNCHANGED <<storeVars, mu, cpc, cleanupTick, tickers>>

\* case <-m.cleanupTick.C
LoopTick(l) ==
    /\ l \in DOMAIN loops
    /\ loops[l].pc = "select"
    /\ tickers[loops[l].tk].pending
    /\ tickers' = [tickers EXCEPT ![loops[l].tk].pending = FALSE]
    /\ loops' = [loops EXCEPT ![l].pc = "sweep"]
    /\ UNCHANGED <<storeVars, mu, cpc, cleanupTick>>

\* a sweep with the time the manager was built at
LoopSweepFixedTime(l) ==
    /\ l \in DOMAIN loops
    /\ loops[l].pc = "sweep"
    /\ MemDeleteExpiredMails(1)
    /\ loops' = [loops EXCEPT ![l].pc = "start"]
    /\ UNCHANGED <<rows, heap, smu, calls, now, retG, scan, mu, cpc, cleanupTick, tickers>>

\* m.DeleteExpiredMails(cleanupCtx): the store's DeleteExpiredMails(ctx, time.Now())
LoopSweep(l) ==
    /\ l \in DOMAIN loops
    /\ loops[l].pc = "sweep"
    /\ MemDeleteExpiredMails(now)
    /\ loops' = [loops EXCEPT ![l].pc = "start"]
    /\ UNCHANGED <<rows, heap, smu, calls, now, retG, scan, mu, cpc, cleanupTick, tickers>>

\* a failed sweep that ends the goroutine
LoopSweepFailsAndReturns(l) ==
    /\ l \in DOMAIN loops
    /\ loops[l].pc = "sweep"
    /\ retM' = [BaseRet EXCEPT !.op = "DeleteExpiredMails", !.t = now, !.err = StorageError]
    /\ loops' = [loops EXCEPT ![l].pc = "done"]
    /\ UNCHANGED <<mails, counter, rows, heap, smu, calls, now, retG, scan, mu, cpc,
                   cleanupTick,
                   tickers>>

\* the store's DeleteExpiredMails returns an error (a database that refuses the
\* delete): if err != nil { fmt.Printf(...) }, and the for loop goes on
LoopSweepFails(l) ==
    /\ l \in DOMAIN loops
    /\ loops[l].pc = "sweep"
    /\ retM' = [BaseRet EXCEPT !.op = "DeleteExpiredMails", !.t = now, !.err = StorageError]
    /\ loops' = [loops EXCEPT ![l].pc = "start"]
    /\ UNCHANGED <<mails, counter, rows, heap, smu, calls, now, retG, scan, mu, cpc,
                   cleanupTick,
                   tickers>>

\* the runtime sends a tick on a running ticker (the channel holds one tick)
TickerFire(t) ==
    /\ t \in DOMAIN tickers
    /\ ~tickers[t].stopped
    /\ ~tickers[t].pending
    /\ tickers' = [tickers EXCEPT ![t].pending = TRUE]
    /\ UNCHANGED <<storeVars, mu, cpc, cleanupTick, loops>>

\* TestScheduleCleanup stops the loop from outside:
\* if manager.cleanupTick != nil { manager.cleanupTick.Stop(); then the send }
ExternalStop(c) ==
    /\ cpc[c] = "idle"
    /\ cleanupTick # 0
    /\ tickers' = [tickers EXCEPT ![cleanupTick].stopped = TRUE]
    /\ cpc' = [cpc EXCEPT ![c] = "xsend"]
    /\ UNCHANGED <<storeVars, mu, cleanupTick, loops>>

\* manager.cleanupStop <- true meets case <-m.cleanupStop: return
ExternalSend(c, l) ==
    /\ cpc[c] = "xsend"
    /\ l \in DOMAIN loops
    /\ loops[l].pc = "select"
    /\ loops' = [loops EXCEPT ![l].pc = "done"]
    /\ cpc' = [cpc EXCEPT ![c] = "idle"]
    /\ UNCHANGED <<storeVars, mu, cleanupTick, tickers>>

\* mail arrives in the store the manager sweeps
SchedPool == {P2, P4}

StoreMail(m) ==
    /\ MemCreateMail(Ptr(m))
    /\ UNCHANGED <<rows, heap, smu, calls, now, retG, scan, schedVars>>

LoopIds == 1..MaxCalls

ThreadStep(c) ==
    \/ SchedReject(c)
    \/ SchedLock(c)
    \/ StopExisting(c)
    \/ \E l \in LoopIds : SendStop(c, l)
    \/ ArmTicker(c)
    \/ SchedReturn(c)

LoopStep(l) == LoopSelect(l) \/ LoopTick(l) \/ LoopSweep(l)

SchedNext ==
    \/ \E c \in Threads, d \in DurationPool : SchedBegin(c, d)
    \/ \E c \in Threads : ThreadStep(c)
    \/ \E l \in LoopIds : LoopStep(l)
    \/ \E t \in LoopIds : TickerFire(t)
    \/ \E m \in SchedPool : StoreMail(m)
    \/ AdvanceClock

\* the manager's API alone
SchedSpec == Init /\ [][SchedNext]_vars

\* Go runs every runnable goroutine: a thread inside ScheduleCleanup and a
\* cleanup goroutine each take their next step when they can
SchedFairness ==
    /\ \A c \in Threads : WF_vars(ThreadStep(c))
    /\ \A l \in LoopIds : WF_vars(LoopStep(l))

FairSchedSpec == SchedSpec /\ SchedFairness

\* one caller of ScheduleCleanup, the goroutines it starts, a ticker that goes
\* on ticking, and mail that arrives meanwhile
SweepNext ==
    \/ \E d \in DurationPool : SchedBegin("t1", d)
    \/ ThreadStep("t1")
    \/ \E l \in LoopIds : LoopStep(l)
    \/ \E t \in LoopIds : TickerFire(t)
    \/ \E m \in SchedPool : StoreMail(m)
    \/ AdvanceClock

TickFairness == \A t \in LoopIds : WF_vars(TickerFire(t))

SweepSpec == Init /\ [][SweepNext]_vars

FairSweepSpec ==
    /\ SweepSpec
    /\ WF_vars(ThreadStep("t1"))
    /\ \A l \in LoopIds : WF_vars(LoopStep(l))
    /\ TickFairness

\* the same over a store whose DeleteExpiredMails can fail
FaultNext ==
    \/ \E d \in DurationPool : SchedBegin("t1", d)
    \/ ThreadStep("t1")
    \/ \E l \in LoopIds : LoopStep(l)
    \/ \E l \in LoopIds : LoopSweepFails(l)
    \/ \E t \in LoopIds : TickerFire(t)
    \/ StoreMail(P2)
    \/ AdvanceClock

FaultSpec == Init /\ [][FaultNext]_vars

FairFaultSpec ==
    /\ FaultSpec
    /\ WF_vars(ThreadStep("t1"))
    /\ \A l \in LoopIds : WF_vars(LoopStep(l) \/ LoopSweepFails(l))
    /\ TickFairness

\* the manager's API and the test's stop from outside
TestNext ==
    \/ SchedNext
    \/ \E c \in Threads : ExternalStop(c)
    \/ \E c \in Threads, l \in LoopIds : ExternalSend(c, l)

TestSpec == Init /\ [][TestNext]_vars

FairTestSpec ==
    /\ TestSpec
    /\ \A c \in Threads :
           WF_vars(ThreadStep(c) \/ \E l \in LoopIds : ExternalSend(c, l))
    /\ \A l \in LoopIds : WF_vars(LoopStep(l))

-----------------------------------------------------------------------------
(* DefaultMailManager over the two stores: the operations that create        *)
(* messages and mark them read.  Each call runs alone, from entry to return. *)

\* defaults that leave the caller's ReadStatus alone
prepareMailForSendingKeepsRead(mail, t) ==
    [mail EXCEPT !.CreateTime = IF @ = 0 THEN t ELSE @,
                 !.Tags = IF @.nil THEN Tags(<<>>) ELSE @,
                 !.Attachments = IF @.nil THEN Att(<<>>) ELSE @]

\* prepareMailForSending: the defaults are written into the caller's message
prepareMailForSending(mail, t) ==
    [mail EXCEPT !.CreateTime = IF @ = 0 THEN t ELSE @,
                 !.Tags = IF @.nil THEN Tags(<<>>) ELSE @,
                 !.Attachments = IF @.nil THEN Att(<<>>) ELSE @,
                 !.ReadStatus = FALSE]

\* what the manager returns before it has called the store
ManagerReturns(op, err) ==
    /\ retM' = [BaseRet EXCEPT !.op = op, !.err = err]
    /\ retG' = [BaseRet EXCEPT !.op = op, !.err = err]
    /\ UNCHANGED <<mails, counter, rows>>

SendMail(mp) ==
    /\ Quiet
    /\ IF mp.nil THEN ManagerReturns("SendMail", InvalidArgument)
       ELSE LET mail == Ptr(prepareMailForSending(mp.val, now))
            IN  MemCreateMail(mail) /\ GormCreateMail(mail)
    /\ UNCHANGED <<heap, smu, calls, now, scan, schedVars>>

\* the message SendBatchMail builds for one recipient of the list
recipientMail(mail, recipientID) ==
    Mail(<<>>, mail.SenderID, recipientID, mail.Title, mail.Content,
         IF mail.Attachments.nil THEN NilAtt
         ELSE Att([k \in DOMAIN mail.Attachments.m |-> mail.Attachments.m[k]]),
         FALSE, mail.CreateTime, mail.ExpireTime,
         Tags([i \in 1..Len(mail.Tags.v) |-> mail.Tags.v[i]]))

SendBatchMail(mp, recipientIDs) ==
    /\ Quiet
    /\ IF mp.nil THEN ManagerReturns("SendBatchMail", InvalidArgument)
       ELSE IF Len(recipientIDs) = 0 THEN ManagerReturns("SendBatchMail", NoError)
       ELSE LET mail == prepareMailForSending(mp.val, now)
                named == SelectSeq(recipientIDs, LAMBDA r : r # "")
                ms == [i \in 1..Len(named) |-> Ptr(recipientMail(mail, named[i]))]
            IN  MemCreateBatchMails(ms) /\ GormCreateBatchMails(ms, "none")
    /\ UNCHANGED <<heap, smu, calls, now, scan, schedVars>>

AnnouncementTag ==
    <<"s", "y", "s", "t", "e", "m", "_", "a", "n", "n", "o", "u", "n", "c", "e", "m",
      "e", "n", "t">>

SendSystemAnnouncement(mp) ==
    /\ Quiet
    /\ IF mp.nil THEN ManagerReturns("SendSystemAnnouncement", InvalidArgument)
       ELSE LET prepared == prepareMailForSending(mp.val, now)
                tagged == \E i \in 1..Len(prepared.Tags.v) :
                              prepared.Tags.v[i] = AnnouncementTag
                mail == [prepared EXCEPT
                            !.SenderID = "system",
                            !.RecipientID = "all_players",
                            !.Tags = IF tagged THEN @
                                     ELSE Tags(Append(@.v, AnnouncementTag))]
            IN  MemCreateMail(Ptr(mail)) /\ GormCreateMail(Ptr(mail))
    /\ UNCHANGED <<heap, smu, calls, now, scan, schedVars>>

\* MarkAsRead that flips the flag of the message it finds
MemMarkAsReadFlip(mailID) ==
    /\ UNCHANGED counter
    /\ IF mailID = <<>>
       THEN /\ retM' = [BaseRet EXCEPT !.op = "MarkAsRead", !.id = mailID,
                                       !.err = InvalidArgument]
            /\ UNCHANGED mails
       ELSE IF mailID \notin DOMAIN mails
       THEN /\ retM' = [BaseRet EXCEPT !.op = "MarkAsRead", !.id = mailID,
                                       !.err = NotFound]
            /\ UNCHANGED mails
       ELSE /\ retM' = [BaseRet EXCEPT !.op = "MarkAsRead", !.id = mailID]
            /\ mails' = [mails EXCEPT ![mailID].ReadStatus = ~@]

\* MarkAsRead over the in-memory store: GetMail, then UpdateMail of the copy
\* it returned with ReadStatus set
MemMarkAsRead(mailID) ==
    /\ UNCHANGED counter
    /\ IF mailID = <<>>
       THEN /\ retM' = [BaseRet EXCEPT !.op = "MarkAsRead", !.id = mailID,
                                       !.err = InvalidArgument]
            /\ UNCHANGED mails
       ELSE IF mailID \notin DOMAIN mails
       THEN /\ retM' = [BaseRet EXCEPT !.op = "MarkAsRead", !.id = mailID,
                                       !.err = NotFound]
            /\ UNCHANGED mails
       ELSE LET mail == copyMail(mails[mailID])
            IN  /\ retM' = [BaseRet EXCEPT !.op = "MarkAsRead", !.id = mailID]
                /\ IF mail.ReadStatus THEN UNCHANGED mails
                   ELSE mails' = [mails EXCEPT ![mailID] =
                                     copyMail([mail EXCEPT !.ReadStatus = TRUE])]

\* the same over the database store: the row is read into a message, and the
\* message with ReadStatus set is written back as a row
GormMarkAsRead(mailID) ==
    IF mailID = <<>>
    THEN /\ retG' = [BaseRet EXCEPT !.op = "MarkAsRead", !.id = mailID,
                                    !.err = InvalidArgument]
         /\ UNCHANGED rows
    ELSE IF mailID \notin DOMAIN rows
    THEN /\ retG' = [BaseRet EXCEPT !.op = "MarkAsRead", !.id = mailID, !.err = NotFound]
         /\ UNCHANGED rows
    ELSE LET mail == entityToMail(rows[mailID])
         IN  /\ retG' = [BaseRet EXCEPT !.op = "MarkAsRead", !.id = mailID]
             /\ IF mail.ReadStatus THEN UNCHANGED rows
                ELSE rows' = Put(rows, mailID,
                                 mailToEntity([mail EXCEPT !.ReadStatus = TRUE], heap))

MarkAsRead(mailID) ==
    /\ Quiet
    /\ MemMarkAsRead(mailID) /\ GormMarkAsRead(mailID)
    /\ UNCHANGED <<heap, smu, calls, now, scan, schedVars>>

\* the loop of MarkAllAsRead from page on, over the in-memory store: the tables
\* it can end with.  Each turn lists the recipient's messages anew, in one of
\* the orders the store can return them in, and updates the unread messages of
\* the page
RECURSIVE MemMarkPages(_, _, _, _)
MemMarkPages(tbl, recipientID, page, totalProcessed) ==
    LET hit == {id \in DOMAIN tbl : tbl[id].RecipientID = recipientID}
        after(order) ==
            LET ids == PageSlice(order, coercePage(page), coerceSize(MarkPageSize))
                marked == [id \in DOMAIN tbl |->
                              IF (\E i \in 1..Len(ids) : ids[i] = id) /\ ~tbl[id].ReadStatus
                              THEN copyMail([copyMail(tbl[id]) EXCEPT !.ReadStatus = TRUE])
                              ELSE tbl[id]]
            IN  IF Len(ids) = 0 THEN {tbl}
                ELSE IF totalProcessed + Len(ids) >= Len(order) THEN {marked}
                ELSE MemMarkPages(marked, recipientID, page + 1,
                                  totalProcessed + Len(ids))
    IN  UNION {after(order) : order \in SortedOrders(tbl, hit)}

MemMarkAllAsRead(recipientID) ==
    /\ UNCHANGED counter
    /\ IF recipientID = ""
       THEN /\ retM' = [BaseRet EXCEPT !.op = "MarkAllAsRead", !.rid = recipientID,
                                       !.err = InvalidArgument]
            /\ UNCHANGED mails
       ELSE /\ retM' = [BaseRet EXCEPT !.op = "MarkAllAsRead", !.rid = recipientID]
            /\ mails' \in MemMarkPages(mails, recipientID, 1, 0)

\* the same over the database store
RECURSIVE GormMarkPages(_, _, _, _, _)
GormMarkPages(tbl, recipientID, page, totalProcessed, hp) ==
    LET hit == {id \in DOMAIN tbl : tbl[id].RecipientID = recipientID}
        p == coercePage(page)
        sz == coerceSize(MarkPageSize)
        after(order) ==
            LET ids == SubSeq(order, (p - 1) * sz + 1, Min((p - 1) * sz + sz, Len(order)))
                marked == [id \in DOMAIN tbl |->
                              IF (\E i \in 1..Len(ids) : ids[i] = id) /\ ~tbl[id].ReadStatus
                              THEN mailToEntity([entityToMail(tbl[id])
                                                    EXCEPT !.ReadStatus = TRUE], hp)
                              ELSE tbl[id]]
            IN  IF Len(ids) = 0 THEN {tbl}
                ELSE IF totalProcessed + Len(ids) >= Len(order) THEN {marked}
                ELSE GormMarkPages(marked, recipientID, page + 1,
                                   totalProcessed + Len(ids), hp)
    IN  UNION {after(order) : order \in SortedOrders(tbl, hit)}

GormMarkAllAsRead(recipientID) ==
    IF recipientID = ""
    THEN /\ retG' = [BaseRet EXCEPT !.op = "MarkAllAsRead", !.rid = recipientID,
                                    !.err = InvalidArgument]
         /\ UNCHANGED rows
    ELSE /\ retG' = [BaseRet EXCEPT !.op = "MarkAllAsRead", !.rid = recipientID]
         /\ rows' \in GormMarkPages(rows, recipientID, 1, 0, heap)

MarkAllAsRead(recipientID) ==
    /\ Quiet
    /\ MemMarkAllAsRead(recipientID) /\ GormMarkAllAsRead(recipientID)
    /\ UNCHANGED <<heap, smu, calls, now, scan, schedVars>>

\* the callers of the manager: messages sent with ReadStatus set and without a
\* CreateTime, three of them to one recipient
S1 == Mail(<<"a">>, "sys", "u1", "t1", "c1", NilAtt, TRUE, 0, 0, NilTags)
S2 == Mail(<<"b">>, "sys", "u1", "t2", "c2", Att([g |-> IntVal(1)]), FALSE, 0, 0,
           Tags(<<TagA>>))
S3 == Mail(<<"c">>, "p1", "u1", "t3", "c3", NilAtt, TRUE, 2, 0, NilTags)
S4 == Mail(<<"d">>, "sys", "u2", "t4", "c4", NilAtt, TRUE, 0, 0, NilTags)
\* the second message as a caller of UpdateMail sets it read
U2 == Mail(<<"b">>, "sys", "u1", "t2u", "c2", Att([g |-> IntVal(1)]), TRUE, 1, 0,
           Tags(<<TagA>>))

SendPool == {S1, S2, S3, S4}
SendIds == {<<>>, <<"a">>, <<"b">>, <<"c">>, <<"d">>}
RecipientLists == {<<>>, <<"u2", "">>}

ManagerNext ==
    \/ \E mp \in {NilMailPtr} \cup {Ptr(m) : m \in SendPool} : SendMail(mp)
    \/ \E mp \in {NilMailPtr, Ptr(S1)}, rs \in RecipientLists :
           /\ (~mp.nil /\ \E i \in 1..Len(rs) : rs[i] # "") => counter < MaxGen
           /\ SendBatchMail(mp, rs)
    \/ \E mp \in {NilMailPtr, Ptr(S4)} : SendSystemAnnouncement(mp)
    \/ \E id \in SendIds : MarkAsRead(id)
    \/ \E rid \in RecipientPool : MarkAllAsRead(rid)
    \/ UpdateMail(Ptr(U2))
    \/ \E rid \in RecipientPool : CountUnreadMails(rid)
    \/ CallerDone

ManagerSpec == Init /\ [][ManagerNext]_vars

\* callers who leave the id to the store: messages without an id, created
\* one at a time, in lists and through SendBatchMail, several of them within
\* one reading of the clock
N1 == Mail(<<>>, "sys", "u1", "t1", "c1", Att([g |-> IntVal(1)]), TRUE, 0, 0,
           Tags(<<TagA, TagB>>))
N2 == Mail(<<>>, "p1", "u2", "t2", "c2", NilAtt, FALSE, 1, 0, NilTags)

IdPtrs == {Ptr(N1), Ptr(N2), Ptr(P1)}
IdBatches == {<<Ptr(N1), Ptr(N2)>>, <<Ptr(P1), NilMailPtr, Ptr(N2)>>}
IdTemplates == {NilMailPtr, Ptr(N1), Ptr(N2)}
IdRecipients == {<<>>, <<"u1">>, <<"u2", "", "u1">>}

IdNext ==
    \/ \E mp \in IdPtrs : IdsLeft(<<mp>>, MaxIds) /\ CreateMail(mp)
    \/ \E ms \in IdBatches : IdsLeft(ms, MaxIds) /\ CreateBatchMails(ms, "none")
    \/ \E mp \in IdTemplates, rs \in IdRecipients :
           /\ (~mp.nil /\ \E i \in 1..Len(rs) : rs[i] # "") => counter < MaxIds
           /\ SendBatchMail(mp, rs)
    \/ \E rid \in {"u1", "u2"} : DeleteMailsByRecipient(rid)
    \/ CallerDone
    \/ Quiet /\ AdvanceClock

IdSpec == Init /\ [][IdNext]_vars

-----------------------------------------------------------------------------
(* Goroutines calling the stores at the same time.  A call on the in-memory  *)
(* store is at lock or rlock (waiting for s.mu), locked, deleting or rlocked *)
(* (holding it) and done (returned, the deferred unlock has run).            *)

MemMutating ==
    {"CreateMail", "UpdateMail", "DeleteMail", "CreateBatchMails",
     "DeleteMailsByRecipient", "DeleteExpiredMails"}

\* a call of op on the in-memory store, before its arguments are filled in
MemCall(op) ==
    [IdleCall EXCEPT !.op = op, !.store = "mem",
                     !.pc = IF op \in MemMutating THEN "lock" ELSE "rlock"]

\* every order a range over a map can visit the keys S in
RECURSIVE Orders(_)
Orders(S) ==
    IF S = {} THEN {<<>>}
    ELSE UNION {{<<x>> \o o : o \in Orders(S \ {x})} : x \in S}

\* s.mu after g has let go of it
Released(g) == [w |-> IF smu.w = g THEN "" ELSE smu.w, r |-> smu.r \ {g}]

\* goroutine g enters the call c
GoBegin(g, c) ==
    /\ calls[g].pc = "idle"
    /\ calls' = [calls EXCEPT ![g] = c]
    /\ UNCHANGED <<mails, counter, rows, heap, now, retM, retG, scan, smu, schedVars>>

\* s.mu.RLock() that does not wait for a writer
GoRLockIgnoresWriter(g) ==
    /\ calls[g].store = "mem" /\ calls[g].pc = "rlock"
    /\ smu' = [smu EXCEPT !.r = @ \cup {g}]
    /\ calls' = [calls EXCEPT ![g].pc = "rlocked"]
    /\ UNCHANGED <<mails, counter, rows, heap, now, retM, retG, scan, schedVars>>

\* s.mu.Lock(): granted when nobody holds the mutex
GoLock(g) ==
    /\ calls[g].store = "mem" /\ calls[g].pc = "lock"
    /\ smu = FreeMu
    /\ smu' = [w |-> g, r |-> {}]
    /\ calls' = [calls EXCEPT ![g].pc = "locked", ![g].todo = calls[g].ms]
    /\ UNCHANGED <<mails, counter, rows, heap, now, retM, retG, scan, schedVars>>

\* s.mu.RLock(): granted when no writer holds the mutex
GoRLock(g) ==
    /\ calls[g].store = "mem" /\ calls[g].pc = "rlock"
    /\ smu.w = ""
    /\ smu' = [smu EXCEPT !.r = @ \cup {g}]
    /\ calls' = [calls EXCEPT ![g].pc = "rlocked"]
    /\ UNCHANGED <<mails, counter, rows, heap, now, retM, retG, scan, schedVars>>

\* CreateMail, UpdateMail, DeleteMail: the body and the return.  The manager's
\* MarkAsRead is here in the UpdateMail it ends with.  ids: what was deleted
GoMemWrite(g) ==
    LET c == calls[g]
    IN  /\ c.store = "mem" /\ c.pc = "locked"
        /\ c.op \in {"CreateMail", "UpdateMail", "DeleteMail", "MarkAsRead"}
        /\ IF c.op = "CreateMail" THEN MemCreateMail(c.mail)
           ELSE IF c.op = "DeleteMail" THEN MemDeleteMail(c.id)
           ELSE MemUpdateMail(c.mail)
        /\ calls' = [calls EXCEPT ![g] =
                        [c EXCEPT !.pc = "done", !.err = retM'.err,
                                  !.ids = IF c.op = "DeleteMail" /\ retM'.err = NoError
                                          THEN <<c.id>> ELSE <<>>]]
        /\ smu' = Released(g)
        /\ UNCHANGED <<rows, heap, now, retG, scan, schedVars>>

\* CreateBatchMails: one turn of the loop over the list
GoMemBatchStep(g) ==
    LET c == calls[g]
        r == MemBatch([mails |-> mails, counter |-> counter, ids |-> c.ids,
                       batch |-> <<>>], <<Head(c.todo)>>, now)
    IN  /\ c.store = "mem" /\ c.pc = "locked" /\ c.op = "CreateBatchMails"
        /\ c.todo # <<>>
        /\ mails' = r.mails
        /\ counter' = r.counter
        /\ calls' = [calls EXCEPT ![g] = [c EXCEPT !.todo = Tail(c.todo), !.ids = r.ids]]
        /\ UNCHANGED <<rows, heap, now, retM, retG, scan, smu, schedVars>>

\* CreateBatchMails: the return, with the ids
GoMemBatchReturn(g) ==
    LET c == calls[g]
    IN  /\ c.store = "mem" /\ c.pc = "locked" /\ c.op = "CreateBatchMails"
        /\ c.todo = <<>>
        /\ retM' = [BaseRet EXCEPT !.op = "CreateBatchMails", !.ids = c.ids]
        /\ calls' = [calls EXCEPT ![g].pc = "done"]
        /\ smu' = Released(g)
        /\ UNCHANGED <<mails, counter, rows, heap, now, retG, scan, schedVars>>

\* DeleteMailsByRecipient, DeleteExpiredMails: the first loop, which collects
\* the ids to delete in the order the map yields them
GoMemCollect(g) ==
    LET c == calls[g]
        toDelete == IF c.op = "DeleteMailsByRecipient"
                    THEN {id \in DOMAIN mails : mails[id].RecipientID = c.rid}
                    ELSE MemExpired(mails, c.t)
    IN  /\ c.store = "mem" /\ c.pc = "locked"
        /\ c.op \in {"DeleteMailsByRecipient", "DeleteExpiredMails"}
        /\ IF c.op = "DeleteMailsByRecipient" /\ c.rid = ""
           THEN /\ retM' = [BaseRet EXCEPT !.op = c.op, !.rid = c.rid,
                                           !.err = InvalidArgument]
                /\ calls' = [calls EXCEPT ![g] = [c EXCEPT !.pc = "done",
                                                           !.err = InvalidArgument]]
                /\ smu' = Released(g)
           ELSE /\ \E order \in Orders(toDelete) :
                       calls' = [calls EXCEPT ![g] = [c EXCEPT !.pc = "deleting",
                                                               !.todo = order,
                                                               !.count = Len(order)]]
                /\ UNCHANGED <<retM, smu>>
        /\ UNCHANGED <<mails, counter, rows, heap, now, retG, scan, schedVars>>

\* the second loop: one delete(s.mails, id)
GoMemDeleteStep(g) ==
    LET c == calls[g]
    IN  /\ c.store = "mem" /\ c.pc = "deleting" /\ c.todo # <<>>
        /\ mails' = Restrict(mails, DOMAIN mails \ {Head(c.todo)})
        /\ calls' = [calls EXCEPT ![g] = [c EXCEPT !.todo = Tail(c.todo),
                                                   !.ids = Append(c.ids, Head(c.todo))]]
        /\ UNCHANGED <<counter, rows, heap, now, retM, retG, scan, smu, schedVars>>

GoMemDeleteReturn(g) ==
    LET c == calls[g]
    IN  /\ c.store = "mem" /\ c.pc = "deleting" /\ c.todo = <<>>
        /\ retM' = [BaseRet EXCEPT !.op = c.op, !.rid = c.rid, !.t = c.t,
                                   !.count = IF c.op = "DeleteExpiredMails" THEN c.count
                                             ELSE 0]
        /\ calls' = [calls EXCEPT ![g].pc = "done"]
        /\ smu' = Released(g)
        /\ UNCHANGED <<mails, counter, rows, heap, now, retG, scan, schedVars>>

\* a read: the body and the return
GoMemRead(g) ==
    LET c == calls[g]
    IN  /\ c.store = "mem" /\ c.pc = "rlocked"
        /\ c.op \in {"GetMail", "QueryMails", "CountUnreadMails"}
        /\ IF c.op = "GetMail" THEN MemGetMail(c.id)
           ELSE IF c.op = "QueryMails" THEN MemQueryMails(c.f, 1, 0)
           ELSE MemCountUnreadMails(c.rid)
        /\ calls' = [calls EXCEPT ![g] = [c EXCEPT !.pc = "done", !.err = retM'.err,
                                                   !.got = retM'.out,
                                                   !.outs = [i \in 1..Len(retM'.outs) |->
                                                               retM'.outs[i].ID],
                                                   !.total = retM'.total,
                                                   !.count = retM'.count]]
        /\ smu' = Released(g)
        /\ UNCHANGED <<rows, heap, now, retG, scan, schedVars>>

\* the caller takes what the call returned
GoDrop(g) ==
    /\ calls[g].pc = "done"
    /\ calls' = [calls EXCEPT ![g] = IdleCall]
    /\ retM' = IF calls[g].store = "mem" THEN BaseRet ELSE retM
    /\ retG' = IF calls[g].store = "gorm" THEN BaseRet ELSE retG
    /\ UNCHANGED <<mails, counter, rows, heap, now, scan, smu, schedVars>>

\* the steps of a call on the in-memory store
GoMemStep(g) ==
    \/ GoLock(g) \/ GoRLock(g) \/ GoMemWrite(g)
    \/ GoMemBatchStep(g) \/ GoMemBatchReturn(g)
    \/ GoMemCollect(g) \/ GoMemDeleteStep(g) \/ GoMemDeleteReturn(g)
    \/ GoMemRead(g)

\* writers of lists and sweeps, and readers, on the in-memory store: a list
\* of three messages, two of them to one recipient and two of them expired at 3
K3 == Mail(<<"c">>, "sys", "u2", "t3", "c3", NilAtt, FALSE, 1, 2, NilTags)

LockCalls ==
    {[MemCall("CreateBatchMails") EXCEPT !.ms = <<Ptr(P1), NilMailPtr, Ptr(P2), Ptr(K3)>>],
     [MemCall("DeleteMailsByRecipient") EXCEPT !.rid = "u1"],
     [MemCall("DeleteMailsByRecipient") EXCEPT !.rid = ""],
     [MemCall("DeleteExpiredMails") EXCEPT !.t = 3],
     [MemCall("UpdateMail") EXCEPT !.mail = Ptr(P2)],
     [MemCall("QueryMails") EXCEPT !.f = EmptyFilter],
     [MemCall("CountUnreadMails") EXCEPT !.rid = "u1"]}

LockNext ==
    \/ \E g \in Goroutines, c \in LockCalls : GoBegin(g, c)
    \/ \E g \in Goroutines : GoMemStep(g)
    \/ \E g \in Goroutines : GoDrop(g)

LockSpec == Init /\ [][LockNext]_vars

\* A call on the database store is a sequence of statements: run (its one
\* statement, or its first), count and save (the two of UpdateMail), done.
GormCall(op) ==
    [IdleCall EXCEPT !.op = op, !.store = "gorm",
                     !.pc = IF op = "UpdateMail" THEN "count" ELSE "run"]

\* the operations that are one statement: DELETE ... WHERE, and the SELECT of
\* GetMail.  ids: the rows the statement deleted
GoGormStatement(g) ==
    LET c == calls[g]
    IN  /\ c.store = "gorm" /\ c.pc = "run"
        /\ c.op \in {"DeleteMail", "DeleteMailsByRecipient", "DeleteExpiredMails",
                     "GetMail"}
        /\ IF c.op = "DeleteMail" THEN GormDeleteMail(c.id)
           ELSE IF c.op = "DeleteMailsByRecipient" THEN GormDeleteMailsByRecipient(c.rid)
           ELSE IF c.op = "DeleteExpiredMails" THEN GormDeleteExpiredMails(c.t)
           ELSE GormGetMail(c.id)
        /\ calls' = [calls EXCEPT ![g] =
                        [c EXCEPT !.pc = "done", !.err = retG'.err, !.got = retG'.out,
                                  !.ids = CHOOSE o \in Orders(DOMAIN rows \ DOMAIN rows') :
                                              TRUE]]
        /\ UNCHANGED <<mails, counter, heap, now, retM, scan, smu, schedVars>>

\* UpdateMail: the argument check and SELECT count(*) ... WHERE id = ?
GoGormUpdateCount(g) ==
    LET c == calls[g]
        err == IF c.mail.nil \/ c.mail.val.ID = <<>> THEN InvalidArgument
               ELSE IF c.mail.val.ID \notin DOMAIN rows THEN NotFound
               ELSE NoError
    IN  /\ c.store = "gorm" /\ c.pc = "count"
        /\ calls' = [calls EXCEPT ![g] = [c EXCEPT !.pc = IF err = NoError THEN "save"
                                                          ELSE "done",
                                                   !.err = err]]
        /\ retG' = IF err = NoError THEN retG
                   ELSE [BaseRet EXCEPT !.op = "UpdateMail", !.mail = c.mail, !.err = err]
        /\ UNCHANGED <<mails, counter, rows, heap, now, retM, scan, smu, schedVars>>

\* UpdateMail: mailToEntity and db.Save(entity), which updates the row with
\* the entity's key and inserts the entity when there is no such row
GoGormUpdateSave(g) ==
    LET c == calls[g]
        err == IF Marshalable(c.mail.val) THEN NoError ELSE SerializationError
    IN  /\ c.store = "gorm" /\ c.pc = "save"
        /\ rows' = IF err = NoError
                   THEN Put(rows, c.mail.val.ID, mailToEntity(c.mail.val, heap))
                   ELSE rows
        /\ calls' = [calls EXCEPT ![g] = [c EXCEPT !.pc = "done", !.err = err]]
        /\ retG' = [BaseRet EXCEPT !.op = "UpdateMail", !.mail = c.mail, !.err = err]
        /\ UNCHANGED <<mails, counter, heap, now, retM, scan, smu, schedVars>>

\* callers of UpdateMail and of the three deletes, on either store, and the
\* messages they work on, which are stored while no call is under way
NoCalls == \A g \in Goroutines : calls[g].pc = "idle"

\* the goroutines that are in a call are all on the store of call c
OneStore(c) == \A g \in Goroutines : calls[g].store \in {"", c.store}

RacePool == {P1, P2}

Stores == {"mem", "gorm"}
StoreCall(store, op) == IF store = "mem" THEN MemCall(op) ELSE GormCall(op)

RaceCalls ==
    UNION {{[StoreCall(s, "UpdateMail") EXCEPT !.mail = Ptr(U2)],
            [StoreCall(s, "DeleteMail") EXCEPT !.id = <<"b">>],
            [StoreCall(s, "DeleteMailsByRecipient") EXCEPT !.rid = "u1"],
            [StoreCall(s, "DeleteExpiredMails") EXCEPT !.t = 3]} : s \in Stores}

\* the goroutines have all returned: their results are picked up then
AllReturned == \A g \in Goroutines : calls[g].pc \in {"idle", "done"}

RaceNext ==
    \/ \E m \in RacePool : NoCalls /\ CreateMail(Ptr(m))
    \/ NoCalls /\ CallerDone
    \/ \E g \in Goroutines, c \in RaceCalls : OneStore(c) /\ GoBegin(g, c)
    \/ \E g \in Goroutines :
           \/ GoLock(g) \/ GoMemWrite(g)
           \/ GoMemCollect(g) \/ GoMemDeleteStep(g) \/ GoMemDeleteReturn(g)
           \/ GoGormStatement(g) \/ GoGormUpdateCount(g) \/ GoGormUpdateSave(g)
    \/ \E g \in Goroutines : AllReturned /\ GoDrop(g)

RaceSpec == Init /\ [][RaceNext]_vars

\* DefaultMailManager.MarkAsRead over a store: the test of the id, the
\* store's GetMail, and for an unread message the store's UpdateMail of what
\* GetMail returned with ReadStatus set
MarkCall(store, mailID) ==
    IF mailID = <<>>
    THEN [IdleCall EXCEPT !.op = "MarkAsRead", !.store = store, !.pc = "done",
                          !.err = InvalidArgument]
    ELSE [StoreCall(store, "GetMail") EXCEPT !.op = "MarkAsRead", !.id = mailID]

\* MarkAsRead: GetMail has returned; the call is over when it failed or the
\* message is read, and goes on to UpdateMail otherwise
GoMarkGet(g) ==
    LET c == calls[g]
        ret == IF c.store = "mem" THEN retM' ELSE retG'
    IN  /\ c.op = "MarkAsRead"
        /\ \/ c.store = "mem" /\ c.pc = "rlocked"
           \/ c.store = "gorm" /\ c.pc = "run"
        /\ IF c.store = "mem"
           THEN MemGetMail(c.id) /\ smu' = Released(g) /\ UNCHANGED <<rows, retG>>
           ELSE GormGetMail(c.id) /\ UNCHANGED <<mails, counter, retM, smu>>
        /\ calls' = [calls EXCEPT ![g] =
                        IF ret.err # NoError THEN [c EXCEPT !.pc = "done", !.err = ret.err]
                        ELSE IF ret.out.val.ReadStatus THEN [c EXCEPT !.pc = "done"]
                        ELSE [c EXCEPT !.pc = StoreCall(c.store, "UpdateMail").pc,
                                       !.mail = Ptr([ret.out.val EXCEPT
                                                        !.ReadStatus = TRUE])]]
        /\ UNCHANGED <<heap, now, scan, schedVars>>

\* a caller of MarkAsRead and a caller of UpdateMail who gives the message
\* another title
V2 == [P2 EXCEPT !.Title = "t2u"]

MarkCalls ==
    UNION {{MarkCall(s, <<>>), MarkCall(s, <<"b">>), MarkCall(s, <<"c">>),
            [StoreCall(s, "UpdateMail") EXCEPT !.mail = Ptr(V2)]} : s \in Stores}

MarkNext ==
    \/ NoCalls /\ CreateMail(Ptr(P2))
    \/ NoCalls /\ CallerDone
    \/ \E g \in Goroutines, c \in MarkCalls : OneStore(c) /\ GoBegin(g, c)
    \/ \E g \in Goroutines :
           \/ GoRLock(g) \/ GoMarkGet(g) \/ GoLock(g) \/ GoMemWrite(g)
           \/ GoGormUpdateCount(g) \/ GoGormUpdateSave(g)
    \/ \E g \in Goroutines : AllReturned /\ GoDrop(g)

MarkSpec == Init /\ [][MarkNext]_vars

-----------------------------------------------------------------------------
(* mailToEntity and entityToMail applied to a message, one after the other:  *)
(* retG.mail is the message, the entity is the row under the message's id,   *)
(* retG.out the message read back                                            *)

ConvAttachments ==
    {NilAtt, Att(<<>>), Att([g |-> IntVal(1)]),
     Att([g |-> IntVal(2), i |-> RefVal(1)]), Att([g |-> ChanVal])}

ConvTags ==
    {NilTags, Tags(<<>>), Tags(<<TagA>>), Tags(<<TagA, TagB>>), Tags(<<TagAB, TagA>>)}

ConvPool ==
    {Mail(id, "sys", "u1", "t1", "c1", att, read, 1, et, tags) :
        id \in {<<>>, <<"a">>}, att \in ConvAttachments, read \in BOOLEAN,
        et \in {0, 2}, tags \in ConvTags}

ConvInit ==
    /\ mails = <<>>
    /\ counter = 0
    /\ rows = <<>>
    /\ heap = [r \in Refs |-> 1]
    /\ now = 1
    /\ retM = BaseRet
    /\ \E m \in ConvPool : retG = [BaseRet EXCEPT !.op = "Mail", !.mail = Ptr(m)]
    /\ scan = IdleScan
    /\ smu = FreeMu
    /\ calls = [g \in Goroutines |-> IdleCall]
    /\ mu = "free"
    /\ cpc = [c \in Threads |-> "idle"]
    /\ cleanupTick = 0
    /\ tickers = <<>>
    /\ loops = <<>>

\* entity, err := mailToEntity(mail)
ApplyMailToEntity ==
    /\ retG.op = "Mail"
    /\ IF Marshalable(retG.mail.val)
       THEN /\ rows' = Put(rows, retG.mail.val.ID, mailToEntity(retG.mail.val, heap))
            /\ retG' = [retG EXCEPT !.op = "mailToEntity"]
       ELSE /\ retG' = [retG EXCEPT !.op = "mailToEntity", !.err = SerializationError]
            /\ UNCHANGED rows
    /\ UNCHANGED <<mails, counter, heap, now, retM, scan, smu, calls, schedVars>>

\* mail, err := entityToMail(entity)
ApplyEntityToMail ==
    /\ retG.op = "mailToEntity" /\ retG.err = NoError
    /\ retG' = [retG EXCEPT !.op = "entityToMail",
                            !.out = Ptr(entityToMail(rows[retG.mail.val.ID]))]
    /\ UNCHANGED <<mails, counter, rows, heap, now, retM, scan, smu, calls, schedVars>>

ConvNext ==
    \/ ApplyMailToEntity
    \/ ApplyEntityToMail

ConvSpec == ConvInit /\ [][ConvNext]_vars

-----------------------------------------------------------------------------
(* A caller of everything that writes the table: the two creates, UpdateMail *)
(* and the three deletes, with GetMail to read what is filed                 *)

TableNext ==
    \/ \E mp \in MailPtrs : IdsLeft(<<mp>>, MaxGen) /\ CreateMail(mp)
    \/ \E ms \in BatchPool : IdsLeft(ms, MaxGen) /\ CreateBatchMails(ms, "none")
    \/ \E mp \in MailPtrs : UpdateMail(mp)
    \/ \E id \in IdPool \cup {GenerateID(t, 1) : t \in Times} : GetMail(id)
    \/ \E id \in IdPool : DeleteMail(id)
    \/ \E rid \in RecipientPool : DeleteMailsByRecipient(rid)
    \/ \E t \in Times : DeleteExpiredMails(t)
    \/ CallerDone
    \/ Quiet /\ AdvanceClock

TableSpec == Init /\ [][TableNext]_vars

\* a caller who asks for the expired messages and sweeps them, as time passes
ExpiryNext ==
    \/ \E mp \in MailPtrs : IdsLeft(<<mp>>, MaxGen) /\ CreateMail(mp)
    \/ \E f \in {EmptyFilter, Filter("", "", UnsetBool, Unset, Unset, TRUE, <<>>)},
          page \in {1, 2}, size \in {0, 1} :
           QueryMails(f, page, size)
    \/ \E t \in Times : DeleteExpiredMails(t)
    \/ CallerDone
    \/ Quiet /\ AdvanceClock

ExpirySpec == Init /\ [][ExpiryNext]_vars

-----------------------------------------------------------------------------
(* The cleanup scheduler *)

LiveLoops == {l \in DOMAIN loops : loops[l].pc # "done"}

\* C1: whatever ScheduleCleanup calls were made, one after another or at the
\* same time, at most one cleanup goroutine is alive at any instant.
C1_AtMostOneLoop == Cardinality(LiveLoops) <= 1

\* a second loop runs after the first was stopped while a thread waits to
\* schedule a third
C1_Witness ==
    /\ Len(loops) >= 2
    /\ loops[1].pc = "done"
    /\ loops[2].pc = "sweep"
    /\ \E c \in Threads : cpc[c] = "lock"

\* the loop was stopped as TestScheduleCleanup does: the ticker is still set,
\* no goroutine is left, nobody is in the middle of stopping it
StoppedOutside ==
    /\ cleanupTick # 0
    /\ LiveLoops = {}
    /\ \A c \in Threads : cpc[c] \in {"idle", "lock"}

\* C2: after the loop was stopped from outside, a later ScheduleCleanup with a
\* positive interval arms a new loop and returns.
C2_StopNeverBlocks ==
    \A c \in Threads : (StoppedOutside /\ cpc[c] = "lock") ~> (cpc[c] = "unlock")

\* C3: a ScheduleCleanup call that has to stop a running loop returns; when it
\* arms the new ticker the previous goroutine has taken the stop signal, and a
\* goroutine that has taken it never runs again.
C3_OldLoopGone == \A c \in Threads : cpc[c] = "arm" => LiveLoops = {}

C3_DoneStays ==
    \A l \in DOMAIN loops : loops[l].pc = "done" => loops'[l].pc = "done"

C3_StopAndRearm ==
    /\ []C3_OldLoopGone
    /\ [][C3_DoneStays]_vars
    /\ \A c \in Threads : (cpc[c] = "send") ~> (cpc[c] = "idle")

\* a call is about to arm its ticker after stopping a goroutine whose ticker
\* had a tick pending
C3_Witness ==
    \E c \in Threads :
        /\ cpc[c] = "arm"
        /\ cleanupTick # 0
        /\ loops[cleanupTick].pc = "done"
        /\ tickers[cleanupTick].pending

-----------------------------------------------------------------------------
(* The stores *)

Range(seq) == {seq[i] : i \in 1..Len(seq)}

Ids(ms) == [i \in 1..Len(ms) |-> ms[i].ID]

\* the messages a read in progress has to return
ScanMatches ==
    IF scan.kind = "QueryMails"
    THEN {id \in DOMAIN mails : matchMail(mails[id], scan.f, now)}
    ELSE {id \in DOMAIN mails : mails[id].RecipientID = scan.rid}

\* C4: over an unchanged store, pages 1..ceil(total/size) of QueryMails or of
\* GetMailsByRecipient, put end to end, are the whole match set, newest first,
\* each message once.
C4_PagesCoverMatches == scan.done => scan.acc \in SortedOrders(mails, ScanMatches)

\* the match predicate as the contract states it
Satisfies(m, f, t) ==
    \/ f.nil
    \/ /\ f.SenderID = "" \/ m.SenderID = f.SenderID
       /\ f.RecipientID = "" \/ m.RecipientID = f.RecipientID
       /\ ~f.ReadStatus.set \/ m.ReadStatus = f.ReadStatus.v
       /\ ~f.StartTime.set \/ f.StartTime.v <= m.CreateTime
       /\ ~f.EndTime.set \/ m.CreateTime <= f.EndTime.v
       /\ ~f.ExpiredOnly \/ (m.ExpireTime # 0 /\ m.ExpireTime < t)
       /\ f.Tags = <<>> \/ Range(f.Tags) \cap Range(m.Tags.v) # {}

\* C5: the total of the in-memory QueryMails is the number of stored messages
\* that satisfy the filter, whatever page and size were asked for; a nil or
\* empty filter counts every message.
C5_TotalIsMatchCount ==
    retM.op = "QueryMails" =>
        /\ retM.err = NoError
        /\ retM.total = Cardinality({id \in DOMAIN mails : Satisfies(mails[id], retM.f, now)})
        /\ retM.f \in {NilFilter, EmptyFilter} => retM.total = Cardinality(DOMAIN mails)

\* a query on recipient and tags, for a page past the end, leaves out a
\* stored message and still reports its match
C5_Witness ==
    /\ retM.op = "QueryMails"
    /\ retM.f.RecipientID = "u1" /\ retM.f.Tags # <<>>
    /\ retM.page = 2 /\ retM.size = 1
    /\ retM.outs = <<>>
    /\ retM.total = 1
    /\ Cardinality(DOMAIN mails) >= 2

\* what DeleteExpiredMails(t) has to remove from a table
Overdue(tbl, t) == {id \in DOMAIN tbl : tbl[id].ExpireTime # 0 /\ tbl[id].ExpireTime < t}

\* C6: in both stores DeleteExpiredMails(t) removes the messages with a non-zero
\* ExpireTime before t, leaves every other message as it was, and returns the
\* number removed and no error.
C6_Step ==
    (retM.op = "none" /\ retM'.op = "DeleteExpiredMails") =>
        /\ retM'.err = NoError /\ retG'.err = NoError
        /\ mails' = Restrict(mails, DOMAIN mails \ Overdue(mails, retM'.t))
        /\ rows' = Restrict(rows, DOMAIN rows \ Overdue(rows, retG'.t))
        /\ retM'.count = Cardinality(Overdue(mails, retM'.t))
        /\ retG'.count = Cardinality(Overdue(rows, retG'.t))

C6_DeleteExpiredExact == [][C6_Step]_vars

\* one message was removed from each store; a message that never expires and
\* one that expires exactly at t are still there
C6_Witness ==
    /\ retM.op = "DeleteExpiredMails" /\ retM.count = 1 /\ retG.count = 1
    /\ \E id \in DOMAIN mails : mails[id].ExpireTime = 0
    /\ \E id \in DOMAIN mails : mails[id].ExpireTime = retM.t
    /\ \E id \in DOMAIN rows : rows[id].ExpireTime = 0
    /\ \E id \in DOMAIN rows : rows[id].ExpireTime = retG.t

\* C7: in both stores a message matches a filter with tags exactly if it
\* carries one of them, as a whole tag, and satisfies the other fields.
C7_TagsAnyOf ==
    /\ (retM.op = "QueryMails" /\ retM.f.Tags # <<>>) =>
           retM.total = Cardinality({id \in DOMAIN mails :
                                        Satisfies(mails[id], retM.f, now)})
    /\ (retG.op = "QueryMails" /\ retG.f.Tags # <<>>) =>
           retG.total = Cardinality({id \in DOMAIN rows :
                                        Satisfies(entityToMail(rows[id]), retG.f, now)})

\* the two stores hold the same messages
SameData ==
    /\ DOMAIN mails = DOMAIN rows
    /\ \A id \in DOMAIN mails : mailToEntity(mails[id], heap) = rows[id]

\* the pages the in-memory store can return for the last query
MemPagesFor(ret) ==
    LET hit == IF ret.op = "QueryMails"
               THEN {id \in DOMAIN mails : matchMail(mails[id], ret.f, now)}
               ELSE {id \in DOMAIN mails : mails[id].RecipientID = ret.rid}
    IN  {PageSlice(o, coercePage(ret.page), coerceSize(ret.size)) :
             o \in SortedOrders(mails, hit)}

\* C8: on the same data, when both calls succeed, the durable store's QueryMails
\* and GetMailsByRecipient return the total and a page that the in-memory store
\* returns for the same arguments.
C8_SameResults ==
    (/\ retG.op \in {"QueryMails", "GetMailsByRecipient"}
     /\ SameData
     /\ retG.err = NoError /\ retM.err = NoError) =>
        /\ retG.total = retM.total
        /\ Ids(retG.outs) \in MemPagesFor(retG)

\* C9: on the same data every operation fails in one store exactly if it fails
\* in the other, with the same kind of error.
C9_Step == (Quiet /\ SameData /\ retM'.op # "none") => retM'.err = retG'.err

C9_SameErrors == [][C9_Step]_vars

\* every stored message as a read returns it: nested maps followed
Deep(m) ==
    [m EXCEPT !.Attachments =
         IF m.Attachments.nil THEN NilAtt
         ELSE Att([k \in DOMAIN m.Attachments.m |->
                      IF m.Attachments.m[k].kind = "ref"
                      THEN MapVal(heap[m.Attachments.m[k].n])
                      ELSE m.Attachments.m[k]])]

Readable == [id \in DOMAIN mails |-> Deep(mails[id])]

\* C10: a change the caller makes to a message it passed in or got back does
\* not change what the stores return.
C10_Step == retM'.op = "CallerMutate" => (Readable' = Readable /\ rows' = rows)

C10_NoSharedState == [][C10_Step]_vars

-----------------------------------------------------------------------------
(* Creating, reading, updating and deleting single messages and batches *)

DeleteOps == {"DeleteMail", "DeleteMailsByRecipient", "DeleteExpiredMails"}

\* what one step did to a table: nothing leaves it but by a delete, nothing in
\* it changes but by UpdateMail
Keeps(tbl, tbl2, op) ==
    \A id \in DOMAIN tbl :
        /\ id \notin DOMAIN tbl2 => op \in DeleteOps
        /\ (id \in DOMAIN tbl2 /\ tbl2[id] # tbl[id]) => op = "UpdateMail"

\* C11: a stored message leaves the table only through a delete operation and
\* changes only through UpdateMail; CreateMail and CreateBatchMails never remove
\* or overwrite a stored message, whatever ids the caller supplies.
C11_Step == Keeps(mails, mails', retM'.op) /\ Keeps(rows, rows', retG'.op)

C11_OnlyDeleteRemoves == [][C11_Step]_vars

\* a message as a reader compares it: nested maps followed, a nil and an empty
\* container taken as the same, the read flag left out
Norm(m) ==
    [Deep(m) EXCEPT !.ReadStatus = FALSE,
                    !.Tags = Tags(m.Tags.v),
                    !.Attachments = Att(Deep(m).Attachments.m)]

\* what GetMail(id) returns from each store
MemRead(id) == copyMail(mails[id])
GormRead(id) == entityToMail(rows[id])

\* a CreateMail call that has just returned, seen from one store
Created(ret, tbl, read(_)) ==
    IF ret.mail.nil THEN ret.err = InvalidArgument
    ELSE /\ ret.err = NoError
         /\ ret.id # <<>>
         /\ ret.mail.val.ID = ret.id
         /\ ret.id \in DOMAIN tbl
         /\ Norm(read(ret.id)) = Norm(ret.mail.val)

\* C12: CreateMail fails only for a nil message; otherwise it returns the final,
\* non-empty id, the caller's message carries it, and GetMail of that id returns
\* the message given, in both stores.
C12_CreateThenGet ==
    /\ retM.op = "CreateMail" => Created(retM, mails, MemRead)
    /\ retG.op = "CreateMail" => Created(retG, rows, GormRead)

\* an UpdateMail call seen from one store: tbl before, tbl2 after, stored(m) the
\* record the store keeps for message m
Updated(ret, tbl, tbl2, stored(_)) ==
    IF ret.mail.nil \/ ret.mail.val.ID = <<>>
    THEN ret.err = InvalidArgument /\ tbl2 = tbl
    ELSE IF ret.mail.val.ID \notin DOMAIN tbl
    THEN ret.err = NotFound /\ tbl2 = tbl
    ELSE /\ ret.err = NoError
         /\ DOMAIN tbl2 = DOMAIN tbl
         /\ tbl2[ret.mail.val.ID] = stored(ret.mail.val)
         /\ \A id \in DOMAIN tbl \ {ret.mail.val.ID} : tbl2[id] = tbl[id]

AsGiven(m) == m
AsRow(m) == mailToEntity(m, heap)

\* C13: UpdateMail of a stored id puts the given message in place of the stored
\* one, every field of it, and leaves the other messages alone; a nil message or
\* an empty id is an InvalidArgument and an id that is not stored is NotFound,
\* and then the table is as it was.
C13_Step ==
    (Quiet /\ retM'.op = "UpdateMail") =>
        /\ Updated(retM', mails, mails', AsGiven)
        /\ Updated(retG', rows, rows', AsRow)

Refused(ret, tbl, tbl2) ==
    /\ ret.id = <<>> => (ret.err = InvalidArgument /\ tbl2 = tbl)
    /\ (ret.id # <<>> /\ ret.id \notin DOMAIN tbl) => (ret.err = NotFound /\ tbl2 = tbl)

\* C14: in both stores GetMail and DeleteMail answer an empty id with
\* InvalidArgument and a non-empty id that is not stored with NotFound, and
\* leave the table as it was.
C14_Step ==
    (Quiet /\ retM'.op \in {"GetMail", "DeleteMail"}) =>
        /\ Refused(retM', mails, mails')
        /\ Refused(retG', rows, rows')

C14_EmptyIdInvalid == [][C14_Step]_vars

\* C15: in both stores GetMailsByRecipient, CountUnreadMails and
\* CountMailsWithAttachments answer an empty recipient with InvalidArgument.
C15_EmptyRecipientInvalid ==
    \A ret \in {retM, retG} :
        (/\ ret.op \in {"GetMailsByRecipient", "CountUnreadMails",
                        "CountMailsWithAttachments"}
         /\ ret.rid = "") => ret.err = InvalidArgument

\* a GetMail or DeleteMail call on a table, tbl before and tbl2 after: a stored
\* id is deleted alone, an id that is not stored cannot be read or deleted
DeletedAlone(ret, tbl, tbl2) ==
    /\ (ret.op = "DeleteMail" /\ ret.id \in DOMAIN tbl) =>
           (ret.err = NoError /\ tbl2 = Restrict(tbl, DOMAIN tbl \ {ret.id}))
    /\ (ret.op = "DeleteMail" /\ ret.id # <<>> /\ ret.id \notin DOMAIN tbl) =>
           (ret.err = NotFound /\ tbl2 = tbl)
    /\ (ret.op = "GetMail" /\ ret.id \notin DOMAIN tbl) =>
           (ret.err # NoError /\ ret.out.nil)
    /\ \A id \in DOMAIN tbl2 \ DOMAIN tbl : ret.op \in {"CreateMail", "CreateBatchMails"}

C16_Step == DeletedAlone(retM', mails, mails') /\ DeletedAlone(retG', rows, rows')

\* no message is stored under the empty id
C16_IdsNotEmpty == <<>> \notin DOMAIN mails /\ <<>> \notin DOMAIN rows

\* C16: DeleteMail of a stored id removes that message and no other; from then
\* on GetMail of the id fails and DeleteMail of it is NotFound, until a create
\* stores the id again.
C16_DeleteExactlyOne == []C16_IdsNotEmpty /\ [][C16_Step]_vars

\* message a has just been deleted from both stores, message b is still there
C16_Witness ==
    /\ retM.op = "DeleteMail" /\ retM.err = NoError /\ retG.err = NoError
    /\ retM.id = <<"a">>
    /\ DOMAIN mails = {<<"b">>} /\ DOMAIN rows = {<<"b">>}

\* a DeleteMailsByRecipient call on a table
RecipientGone(ret, tbl, tbl2) ==
    IF ret.rid = ""
    THEN ret.err = InvalidArgument /\ tbl2 = tbl
    ELSE /\ ret.err = NoError
         /\ tbl2 = Restrict(tbl, {id \in DOMAIN tbl : tbl[id].RecipientID # ret.rid})

\* C17: DeleteMailsByRecipient(r) with a non-empty r removes the messages of r
\* and no other, and succeeds when there are none; with an empty r it is an
\* InvalidArgument and removes nothing.
C17_Step ==
    (Quiet /\ retM'.op = "DeleteMailsByRecipient") =>
        /\ RecipientGone(retM', mails, mails')
        /\ RecipientGone(retG', rows, rows')

C17_DeleteByRecipient == [][C17_Step]_vars

\* the call with an empty recipient was refused and the message stored with an
\* empty recipient is still there
C17_Witness ==
    /\ retM.op = "DeleteMailsByRecipient" /\ retM.rid = ""
    /\ retM.err = InvalidArgument /\ retG.err = InvalidArgument
    /\ \E id \in DOMAIN mails : mails[id].RecipientID = ""
    /\ \E id \in DOMAIN rows : rows[id].RecipientID = ""

\* the messages of the caller's list, the nil entries left out
NonNil(batch) == SelectSeq(batch, LAMBDA mp : ~mp.nil)

\* a CreateBatchMails call that has returned: one id per message, in the order
\* of the list, each message stored under its id
Batched(ret, tbl, read(_)) ==
    LET given == NonNil(ret.batch)
    IN  /\ Len(ret.ids) = Len(given)
        /\ \A i \in 1..Len(given) :
               /\ ret.ids[i] # <<>>
               /\ given[i].val.ID = ret.ids[i]
               /\ ret.ids[i] \in DOMAIN tbl
               /\ Norm(read(ret.ids[i])) = Norm(given[i].val)

\* C18: CreateBatchMails skips nil entries, gives an id to every message that
\* has none, stores every message and returns one id per message in the order
\* of the list, so that GetMail(ids[i]) is the i-th message; an empty list and a
\* list of nil entries give an empty result and no error.
C18_BatchStoresAll ==
    /\ retM.op = "CreateBatchMails" =>
           (retM.err = NoError /\ Batched(retM, mails, MemRead))
    /\ (retG.op = "CreateBatchMails" /\ retG.err = NoError) =>
           Batched(retG, rows, GormRead)

\* C19: the durable store's CreateBatchMails stores all of a batch or nothing:
\* when it returns an error the table is as it was, and when it returns no
\* error every message of the batch is stored and the rows stored before are
\* unchanged.
C19_Step ==
    (Quiet /\ retG'.op = "CreateBatchMails") =>
        IF retG'.err # NoError
        THEN rows' = rows
        ELSE LET given == NonNil(retG'.batch)
             IN  /\ \A i \in 1..Len(given) :
                        /\ given[i].val.ID \in DOMAIN rows'
                        /\ rows'[given[i].val.ID] = mailToEntity(given[i].val, heap)
                 /\ \A id \in DOMAIN rows : rows'[id] = rows[id]
                 /\ DOMAIN rows' = DOMAIN rows \cup {given[i].val.ID : i \in 1..Len(given)}

C19_BatchAllOrNothing == [][C19_Step]_vars

\* a batch of two messages was refused because the second could not be encoded:
\* the first is not in the table, and the row stored before still is
C19_Witness ==
    /\ retG.op = "CreateBatchMails" /\ retG.err = SerializationError
    /\ Len(retG.batch) = 2 /\ retG.batch[1] = Ptr(P1) /\ retG.batch[2] = Ptr(P5)
    /\ <<"a">> \notin DOMAIN rows
    /\ DOMAIN rows # {}

\* the CreateTime at place k when the messages ids of tbl stand newest first
TimeAt(tbl, ids, k) ==
    CHOOSE t \in {tbl[id].CreateTime : id \in ids} :
        /\ Cardinality({id \in ids : tbl[id].CreateTime > t}) < k
        /\ k <= Cardinality({id \in ids : tbl[id].CreateTime >= t})

\* a GetMailsByRecipient call that has returned a page: only messages of the
\* recipient, the total their number, and the page the places
\* (page-1)*size+1 .. page*size of the newest-first order
Listed(ret, tbl) ==
    LET hit == {id \in DOMAIN tbl : tbl[id].RecipientID = ret.rid}
        page == IF ret.page <= 0 THEN 1 ELSE ret.page
        size == IF ret.size <= 0 THEN 10 ELSE ret.size
        off == (page - 1) * size
        left == Cardinality(hit) - off
        n == IF left <= 0 THEN 0 ELSE IF left < size THEN left ELSE size
    IN  /\ ret.total = Cardinality(hit)
        /\ Len(ret.outs) = n
        /\ \A i \in 1..n : /\ ret.outs[i].ID \in hit
                           /\ ret.outs[i].CreateTime = TimeAt(tbl, hit, off + i)
        /\ \A i, j \in 1..n : i < j => ret.outs[i].CreateTime >= ret.outs[j].CreateTime

\* C20: GetMailsByRecipient(r, page, size) returns only messages of r, newest
\* first inside the page and from one page to the next, and its total is the
\* number of stored messages of r whatever page and size are.
C20_ListNewestFirst ==
    /\ (retM.op = "GetMailsByRecipient" /\ retM.err = NoError) => Listed(retM, mails)
    /\ (retG.op = "GetMailsByRecipient" /\ retG.err = NoError) => Listed(retG, rows)

\* the second page of size 1 of a recipient with three messages created at two
\* different times, from both stores
C20_Witness ==
    /\ retM.op = "GetMailsByRecipient" /\ retM.rid = "u1"
    /\ retM.page = 2 /\ retM.size = 1
    /\ retM.total = 3 /\ retG.total = 3
    /\ Len(retM.outs) = 1 /\ retM.outs[1].CreateTime = 2
    /\ Len(retG.outs) = 1 /\ retG.outs[1].CreateTime = 2
    /\ <<"d">> \in DOMAIN mails

\* the page and the size a listing call works with, as the contract states them
AtLeastOne(n, default) == IF n < 1 THEN default ELSE n

\* the stored messages a returned QueryMails or GetMailsByRecipient call selects
MemHits(ret) ==
    IF ret.op = "QueryMails"
    THEN {id \in DOMAIN mails : matchMail(mails[id], ret.f, now)}
    ELSE {id \in DOMAIN mails : mails[id].RecipientID = ret.rid}

GormHits(ret) ==
    IF ret.op = "QueryMails"
    THEN {id \in DOMAIN rows : GormWhere(rows[id], ret.f, now)}
    ELSE {id \in DOMAIN rows : rows[id].RecipientID = ret.rid}

ListingOps == {"QueryMails", "GetMailsByRecipient"}

\* C21: QueryMails and GetMailsByRecipient called with a page below 1 or a size
\* below 1 are not rejected for it, and return a page and a total that the call
\* with page 1 in place of the page, size 10 in place of the size, returns, in
\* both stores.
C21_CoercedPaging ==
    /\ (retM.op \in ListingOps /\ (retM.page < 1 \/ retM.size < 1)) =>
           /\ retM.err = NoError
           /\ retM.total = Cardinality(MemHits(retM))
           /\ \E order \in SortedOrders(mails, MemHits(retM)) :
                  retM.outs = MemPage(order, AtLeastOne(retM.page, 1),
                                      AtLeastOne(retM.size, 10))
    /\ (retG.op \in ListingOps /\ (retG.page < 1 \/ retG.size < 1)) =>
           /\ retG.err # NoError => (retG.op = "GetMailsByRecipient" /\ retG.rid = "")
           /\ retG.err = NoError =>
                  /\ retG.total = Cardinality(GormHits(retG))
                  /\ \E order \in SortedOrders(rows, GormHits(retG)) :
                         retG.outs = GormPage(order, AtLeastOne(retG.page, 1),
                                              AtLeastOne(retG.size, 10))

\* a query for page -1 with size 0 over four stored messages: both stores
\* return all four
C21_Witness ==
    /\ retM.op = "QueryMails" /\ retM.f = NilFilter
    /\ retM.page = -1 /\ retM.size = 0
    /\ retM.total = 4 /\ Len(retM.outs) = 4
    /\ retG.total = 4 /\ Len(retG.outs) = 4

\* the number of messages of a page, given the number of matches
PageLength(page, size, total) ==
    LET offset == (AtLeastOne(page, 1) - 1) * AtLeastOne(size, 10)
    IN  IF offset >= total THEN 0 ELSE Min(AtLeastOne(size, 10), total - offset)

\* C22: a QueryMails or GetMailsByRecipient call that is not refused returns
\* the number of matches as total and no error; when the offset (page-1)*size
\* is at or beyond that number the page is empty, otherwise it holds
\* min(size, total-offset) messages; in both stores.
C22_PageLength ==
    /\ retM.op \in ListingOps =>
           /\ retM.err = NoError
           /\ retM.total = Cardinality(MemHits(retM))
           /\ Len(retM.outs) = PageLength(retM.page, retM.size, retM.total)
    /\ (retG.op \in ListingOps /\ retG.err = NoError) =>
           /\ retG.total = Cardinality(GormHits(retG))
           /\ Len(retG.outs) = PageLength(retG.page, retG.size, retG.total)

\* page 3 of size 2 of a recipient with three messages: empty, total 3
C22_Witness ==
    /\ retM.op = "GetMailsByRecipient" /\ retM.rid = "u1"
    /\ retM.page = 3 /\ retM.size = 2
    /\ retM.outs = <<>> /\ retM.total = 3
    /\ retG.err = NoError /\ retG.outs = <<>> /\ retG.total = 3

\* page 2 of size 2 of a query that matches three messages holds one
C22_LastPageWitness ==
    /\ retG.op = "QueryMails" /\ retG.page = 2 /\ retG.size = 2
    /\ retG.total = 3 /\ Len(retG.outs) = 1
    /\ retM.total = 3 /\ Len(retM.outs) = 1

\* a message whose attachment bag has at least one entry
HasAttachment(m) == ~m.Attachments.nil /\ DOMAIN m.Attachments.m # {}

CountOps == {"CountUnreadMails", "CountMailsWithAttachments"}

\* a count call for a recipient that has returned: no error, and the number
\* of the recipient's stored messages that are unread, or that have an
\* attachment; read(id) is the stored message id as the store returns it
Counted(ret, tbl, read(_)) ==
    LET own == {id \in DOMAIN tbl : read(id).RecipientID = ret.rid}
    IN  /\ ret.err = NoError
        /\ ret.op = "CountUnreadMails" =>
               ret.count = Cardinality({id \in own : ~read(id).ReadStatus})
        /\ ret.op = "CountMailsWithAttachments" =>
               ret.count = Cardinality({id \in own : HasAttachment(read(id))})

\* C23: after any creates, updates and deletes, CountUnreadMails(r) is the
\* number of stored messages of r that are unread and CountMailsWithAttachments(r)
\* the number of stored messages of r with at least one attachment, absent and
\* empty bags not counted, in both stores; for a recipient without messages
\* both are 0, without an error.
C23_Counts ==
    /\ (retM.op \in CountOps /\ retM.rid # "") => Counted(retM, mails, MemRead)
    /\ (retG.op \in CountOps /\ retG.rid # "") => Counted(retG, rows, GormRead)

\* a recipient with a message without a bag, one with an empty bag and one
\* with an attachment: both stores count one
C23_Witness ==
    /\ retM.op = "CountMailsWithAttachments" /\ retM.rid = "u1"
    /\ retM.count = 1 /\ retG.count = 1
    /\ DOMAIN mails = {<<"a">>, <<"b">>, <<"c">>, <<"d">>}
    /\ mails[<<"a">>].Attachments.nil
    /\ ~mails[<<"c">>].Attachments.nil

\* a recipient with one unread message left after an update of another
C23_UnreadWitness ==
    /\ retG.op = "CountUnreadMails" /\ retG.rid = "u1"
    /\ retG.count = 1 /\ retM.count = 1
    /\ <<"a">> \in DOMAIN rows /\ rows[<<"a">>].ReadStatus
    /\ <<"b">> \in DOMAIN rows /\ <<"c">> \in DOMAIN rows

\* a recipient without messages
C23_NoneWitness ==
    /\ retG.op = "CountUnreadMails" /\ retG.rid = "u2"
    /\ retG.count = 0 /\ retM.count = 0 /\ retG.err = NoError
    /\ DOMAIN rows # {}

\* an ExportMailLogs call that has returned a document: one entry for each
\* stored message that satisfies the filter, none for another, newest first;
\* read(id) is the stored message id as the store returns it
Exported(ret, tbl, read(_)) ==
    LET want == {id \in DOMAIN tbl : Satisfies(read(id), ret.f, now)}
    IN  /\ {ret.outs[i].ID : i \in 1..Len(ret.outs)} = want
        /\ Len(ret.outs) = Cardinality(want)
        /\ \A i, j \in 1..Len(ret.outs) :
               i < j => ret.outs[i].CreateTime >= ret.outs[j].CreateTime

\* C24: the document ExportMailLogs(filter) returns holds every stored message
\* that satisfies the filter, under the predicate of QueryMails, newest first,
\* and no other message, however many there are, in both stores.
C24_ExportsAllMatches ==
    /\ (retM.op = "ExportMailLogs" /\ retM.err = NoError) => Exported(retM, mails, MemRead)
    /\ (retG.op = "ExportMailLogs" /\ retG.err = NoError) => Exported(retG, rows, GormRead)

-----------------------------------------------------------------------------
(* The sweep loop *)

\* the step in which goroutine l returns from DeleteExpiredMails
SweepStep(l) ==
    /\ l \in DOMAIN loops
    /\ loops[l].pc = "sweep"
    /\ loops'[l].pc # "sweep"

\* a sweep asks the store to delete as of the current time, removes the
\* messages that are overdue then and leaves every other message as it was
C25_Step ==
    \A l \in LoopIds :
        SweepStep(l) =>
            /\ retM'.op = "DeleteExpiredMails" /\ retM'.t = now
            /\ DOMAIN mails' = DOMAIN mails \ Overdue(mails, now)
            /\ \A id \in DOMAIN mails' : mails'[id] = mails[id]

\* C25: while a sweep loop is running every tick calls DeleteExpiredMails with
\* the current time: a stored message with a non-zero ExpireTime in the past is
\* eventually removed with no caller asking for it, given that the ticker
\* ticks, and a sweep removes no message that is not expired.
C25_SweepRemovesExpired ==
    /\ [][C25_Step]_vars
    /\ \A id \in {m.ID : m \in SchedPool} :
           (LiveLoops # {} /\ id \in Overdue(mails, now)) ~> (id \notin DOMAIN mails)

\* a sweep has just removed the expired message and left the other one
C25_Witness ==
    /\ retM.op = "DeleteExpiredMails" /\ retM.count = 1 /\ retM.t = 2
    /\ DOMAIN mails = {<<"a">>}
    /\ LiveLoops # {}

\* a sweep of goroutine l has just failed
SweepFailed(l) ==
    /\ l \in DOMAIN loops
    /\ loops[l].pc = "start"
    /\ retM.op = "DeleteExpiredMails" /\ retM.err = StorageError

C26_Step ==
    \A l \in LoopIds :
        (SweepStep(l) /\ retM'.err # NoError) => loops'[l].pc = "start"

\* C26: a sweep whose DeleteExpiredMails returns an error does not end the
\* goroutine: it goes back to its select, and DeleteExpiredMails is called
\* again at a later tick.
C26_FailedSweepGoesOn ==
    /\ [][C26_Step]_vars
    /\ \A l \in LoopIds : SweepFailed(l) ~> (\E k \in DOMAIN loops : loops[k].pc = "sweep")

\* the second sweep of a goroutine after its first one failed: the expired
\* message is still stored
C26_Witness ==
    /\ retM.op = "DeleteExpiredMails" /\ retM.err = StorageError
    /\ Len(loops) = 1 /\ loops[1].pc = "sweep"
    /\ Overdue(mails, now) # {}

\* a ScheduleCleanup call with an interval of zero or less goes to return its
\* error and, until it has returned, touches neither the lock, the ticker, the
\* goroutines nor the store
C27_Step ==
    \A c \in Threads :
        /\ \A d \in DurationPool :
               (d <= 0 /\ SchedBegin(c, d)) =>
                   /\ cpc'[c] = "rejected"
                   /\ UNCHANGED <<storeVars, mu, cleanupTick, tickers, loops>>
        /\ (cpc[c] = "rejected" /\ cpc'[c] # "rejected") =>
               /\ cpc'[c] = "idle"
               /\ UNCHANGED <<storeVars, mu, cleanupTick, tickers, loops>>

\* C27: ScheduleCleanup with an interval of zero or less returns an error and
\* changes nothing: it starts no goroutine, and a goroutine that is running
\* keeps running on the ticker it had.
C27_RejectChangesNothing == [][C27_Step]_vars

\* a call is refused while a goroutine waits on its ticker
C27_Witness ==
    \E c \in Threads :
        /\ cpc[c] = "rejected"
        /\ cleanupTick = 1 /\ ~tickers[1].stopped
        /\ loops[1].pc = "select" /\ loops[1].tk = 1

-----------------------------------------------------------------------------
(* The manager *)

\* the step is the manager call op, made while no call is outstanding
ManagerCall(op) == Quiet /\ retM'.op = op /\ retG'.op = op

\* a MarkAsRead call on a stored message returns no error; a message that was
\* read is left as it was and so is every other message, a message that was
\* unread differs in its ReadStatus alone
C28_Step ==
    ManagerCall("MarkAsRead") =>
        /\ UNCHANGED counter
        /\ retM'.id \in DOMAIN mails =>
               /\ retM'.err = NoError
               /\ mails' = IF mails[retM'.id].ReadStatus THEN mails
                           ELSE [mails EXCEPT ![retM'.id].ReadStatus = TRUE]
        /\ retG'.id \in DOMAIN rows =>
               /\ retG'.err = NoError
               /\ rows' = IF rows[retG'.id].ReadStatus THEN rows
                          ELSE [rows EXCEPT ![retG'.id].ReadStatus = TRUE]

\* C28: MarkAsRead is idempotent: on a message that is already read it
\* succeeds and leaves every stored message as it was; on an unread message,
\* with no other operation running, it sets the ReadStatus of that message and
\* changes nothing else.
C28_MarkAsReadIdempotent == [][C28_Step]_vars

\* MarkAsRead has returned for a message that an UpdateMail had set read
C28_Witness ==
    /\ retM.op = "MarkAsRead" /\ retM.id = <<"b">> /\ retM.err = NoError
    /\ retG.err = NoError
    /\ mails[<<"b">>].Title = "t2u" /\ mails[<<"b">>].ReadStatus
    /\ rows[<<"b">>].Title = "t2u" /\ rows[<<"b">>].ReadStatus
    /\ \E id \in DOMAIN mails : ~mails[id].ReadStatus

\* the ids a create call of the store has returned
CreatedIds(ret) ==
    IF ret.op = "CreateMail" THEN {ret.id}
    ELSE IF ret.op = "CreateBatchMails" THEN {ret.ids[i] : i \in 1..Len(ret.ids)}
    ELSE {}

SetsRead == {"MarkAsRead", "MarkAllAsRead", "UpdateMail"}

\* in one store: what a send has stored is unread and has a CreateTime, and a
\* stored message goes from unread to read in the operations of SetsRead only
SentUnread(ret, tbl, tbl2) ==
    /\ ret.err = NoError =>
           \A id \in CreatedIds(ret) :
               /\ id \in DOMAIN tbl2
               /\ ~tbl2[id].ReadStatus
               /\ tbl2[id].CreateTime # 0
    /\ \A id \in DOMAIN tbl \cap DOMAIN tbl2 :
           (~tbl[id].ReadStatus /\ tbl2[id].ReadStatus) => ret.op \in SetsRead

\* C29: a message created through SendMail, SendBatchMail or
\* SendSystemAnnouncement is stored unread and with a non-zero CreateTime
\* whatever the caller supplied, and stays unread until MarkAsRead,
\* MarkAllAsRead or an UpdateMail sets it read.
C29_Step == SentUnread(retM', mails, mails') /\ SentUnread(retG', rows, rows')

AllMarked(ret, tbl, tbl2) ==
    ret.err = NoError =>
        /\ DOMAIN tbl2 = DOMAIN tbl
        /\ \A id \in DOMAIN tbl :
               IF tbl[id].RecipientID = ret.rid
               THEN tbl2[id] = [tbl[id] EXCEPT !.ReadStatus = TRUE]
               ELSE tbl2[id] = tbl[id]

C30_Step ==
    ManagerCall("MarkAllAsRead") =>
        AllMarked(retM', mails, mails') /\ AllMarked(retG', rows, rows')

\* C30: MarkAllAsRead(r) returns, and when it returns without an error, no
\* other operation having run meanwhile, every stored message of r is read,
\* however many there are and whatever their CreateTimes, and the messages of
\* other recipients are unchanged.
C30_MarkAllMarksAll == [][C30_Step]_vars

-----------------------------------------------------------------------------
(* Ids, interleavings and conversions *)

\* the recipients of a list that SendBatchMail sends to
Named(recipientIDs) == SelectSeq(recipientIDs, LAMBDA r : r # "")

\* a tag list and an attachment bag as sent: absent ones are sent empty
SentTags(mail) == IF mail.Tags.nil THEN <<>> ELSE mail.Tags.v
SentAttachments(mail) == IF mail.Attachments.nil THEN <<>> ELSE mail.Attachments.m

\* the message m carries the template's sender, title, content, tags and
\* attachments and is addressed to r, as the in-memory store keeps it
MemCarries(m, mail, r) ==
    /\ m.RecipientID = r /\ m.SenderID = mail.SenderID
    /\ m.Title = mail.Title /\ m.Content = mail.Content
    /\ m.Tags.v = SentTags(mail)
    /\ m.Attachments.m = SentAttachments(mail)

\* the same for a row of the database store, which keeps the two as JSON text
GormCarries(row, mail, r) ==
    /\ row.RecipientID = r /\ row.SenderID = mail.SenderID
    /\ row.Title = mail.Title /\ row.Content = mail.Content
    /\ row.Tags = MarshalTags(SentTags(mail))
    /\ row.Attachments = MarshalAttachments(SentAttachments(mail), heap)

\* SendBatchMail(mp, recipientIDs) seen from one store: tbl before, tbl2 after
BatchSent(mp, recipientIDs, ret, tbl, tbl2, carries(_, _, _)) ==
    IF mp.nil THEN ret.err # NoError /\ tbl2 = tbl
    ELSE IF Len(recipientIDs) = 0
    THEN ret.err = NoError /\ ret.ids = <<>> /\ tbl2 = tbl
    ELSE LET named == Named(recipientIDs)
         IN  /\ ret.err = NoError
             /\ Len(ret.ids) = Len(named)
             /\ \A i, j \in 1..Len(ret.ids) : ret.ids[i] = ret.ids[j] => i = j
             /\ DOMAIN tbl2 = DOMAIN tbl \cup Range(ret.ids)
             /\ \A id \in DOMAIN tbl : id \notin Range(ret.ids) /\ tbl2[id] = tbl[id]
             /\ \A i \in 1..Len(named) : carries(tbl2[ret.ids[i]], mp.val, named[i])

C31_Step ==
    \A mp \in IdTemplates, recipientIDs \in IdRecipients :
        SendBatchMail(mp, recipientIDs) =>
            /\ BatchSent(mp, recipientIDs, retM', mails, mails', MemCarries)
            /\ BatchSent(mp, recipientIDs, retG', rows, rows', GormCarries)

\* C31: SendBatchMail stores exactly one message for each non-empty recipient
\* id of the list and returns the ids in the order of the recipients, the i-th
\* id being the message to the i-th non-empty recipient with the template's
\* sender, title, content, tags and attachments; an empty list gives an empty
\* result and no error, and a nil mail fails and stores nothing.
C31_BatchSendStoresEach == [][C31_Step]_vars

\* goroutine w is part way through a list or a sweep of the in-memory store:
\* some of its entries are stored or deleted and some are still to come
PartWay(w) ==
    LET c == calls[w]
    IN  /\ c.store = "mem" /\ c.pc \in {"locked", "deleting"}
        /\ c.op \in {"CreateBatchMails", "DeleteMailsByRecipient", "DeleteExpiredMails"}
        /\ c.ids # <<>>
        /\ \E i \in 1..Len(c.todo) : c.op = "CreateBatchMails" => ~c.todo[i].nil

\* the step in which goroutine g reads the table of the in-memory store
GoReads(g) == calls[g].store = "mem" /\ calls[g].pc = "rlocked" /\ calls'[g].pc = "done"

\* who holds s.mu: a goroutine in the body of a mutating operation holds it
\* alone, a goroutine in the body of a read holds it shared, with no writer
C32_LockHeld ==
    \A g \in Goroutines :
        /\ (calls[g].store = "mem" /\ calls[g].pc \in {"locked", "deleting"}) =>
               /\ calls[g].op \in MemMutating
               /\ smu = [w |-> g, r |-> {}]
        /\ (calls[g].store = "mem" /\ calls[g].pc = "rlocked") =>
               /\ calls[g].op \notin MemMutating
               /\ smu.w = "" /\ g \in smu.r

C32_Step ==
    /\ mails' # mails => \E g \in Goroutines : smu.w = g /\ calls[g].op \in MemMutating
    /\ \A g \in Goroutines : GoReads(g) => \A w \in Goroutines \ {g} : ~PartWay(w)

\* C32: in the in-memory store a mutating operation holds s.mu exclusively
\* from its first to its last access of the table and a read holds it shared,
\* so the table changes only under the exclusive lock, and no read takes place
\* while a CreateBatchMails, a DeleteMailsByRecipient or a DeleteExpiredMails
\* of another goroutine is part way through its entries: the read sees none
\* of the operation's effect or all of it.
C32_ReadsSeeWholeOperations == []C32_LockHeld /\ [][C32_Step]_vars

\* a query waits for s.mu while a list of another goroutine is part stored
C32_Witness ==
    /\ PartWay("g1") /\ calls["g1"].op = "CreateBatchMails"
    /\ calls["g2"].op = "QueryMails" /\ calls["g2"].pc = "rlock"

\* a query has returned all three messages of a list while the goroutine that
\* stored the list has not picked up its result yet
C32_AllSeenWitness ==
    /\ calls["g1"].op = "CreateBatchMails" /\ calls["g1"].pc = "done"
    /\ calls["g2"].op = "QueryMails" /\ calls["g2"].pc = "done"
    /\ calls["g2"].total = 3

\* the ids a create call has assigned: those of the entries that came without
\* one, read from the caller's entries after the call
AssignedIds(given, after) ==
    LET idx == SelectSeq([i \in 1..Len(given) |-> i],
                         LAMBDA i : NeedsID(given[i]) /\ i <= Len(after))
    IN  [k \in 1..Len(idx) |-> after[idx[k]].val.ID]

\* ids that are not empty, not in the table and all different
FreshIds(ids, tbl) ==
    /\ \A i \in 1..Len(ids) : ids[i] # <<>> /\ ids[i] \notin DOMAIN tbl
    /\ \A i, j \in 1..Len(ids) : ids[i] = ids[j] => i = j

\* ids of the in-memory store's generator that carry a count above c: no id
\* it handed out before does
CountsAbove(ids, c) == \A i \in 1..Len(ids) : DigitValue(ids[i][4]) > c

\* a create step seen from both stores
FreshInBoth(given, afterM, afterG) ==
    /\ FreshIds(AssignedIds(given, afterM), mails)
    /\ CountsAbove(AssignedIds(given, afterM), counter)
    /\ FreshIds(AssignedIds(given, afterG), rows)

C33_Step ==
    /\ \A mp \in IdPtrs : CreateMail(mp) => FreshInBoth(<<mp>>, <<retM'.mail>>, <<retG'.mail>>)
    /\ \A ms \in IdBatches :
           CreateBatchMails(ms, "none") => FreshInBoth(ms, retM'.batch, retG'.batch)
    /\ \A mp \in IdTemplates \ {NilMailPtr}, rs \in IdRecipients :
           SendBatchMail(mp, rs) =>
               FreshInBoth([i \in 1..Len(Named(rs)) |-> Ptr(ZeroMail)],
                           retM'.batch, retG'.batch)

\* C33: an id a store assigns to a message that came without one differs from
\* the id of every message stored at that moment, from the other ids assigned
\* in the same call and from every id assigned before, in CreateMail and in
\* CreateBatchMails, also when the clock reads the same for several of them.
C33_AssignedIdsFresh == [][C33_Step]_vars

\* the table of a store
TableOf(store) == IF store = "mem" THEN mails ELSE rows

\* goroutine d has returned from a delete that removed the message id
HasRemoved(d, id) ==
    /\ calls[d].pc = "done" /\ calls[d].err = NoError
    /\ calls[d].op \in DeleteOps
    /\ id \in Range(calls[d].ids)

\* goroutine u has returned from UpdateMail of the message id on the store
\* that d worked on
HasUpdated(u, d, id) ==
    /\ calls[u].pc = "done" /\ calls[u].op = "UpdateMail"
    /\ calls[u].store = calls[d].store
    /\ calls[u].mail.val.ID = id

\* C34: UpdateMail adds no message.  When a DeleteMail, DeleteMailsByRecipient
\* or DeleteExpiredMails that removed a message and an UpdateMail of that
\* message have both returned, no create having run since, the id is not in
\* the store, however the two calls were interleaved, in both stores.
C34_UpdateNeverAdds ==
    \A d, u \in Goroutines, id \in {<<"a">>, <<"b">>} :
        (HasRemoved(d, id) /\ HasUpdated(u, d, id)) =>
            id \notin DOMAIN TableOf(calls[d].store)


\* goroutine u has returned from a successful UpdateMail of the message id
HasRetitled(u, id) ==
    /\ calls[u].pc = "done" /\ calls[u].op = "UpdateMail"
    /\ calls[u].err = NoError
    /\ calls[u].mail.val.ID = id

\* goroutine k has returned from a successful MarkAsRead of the message id on
\* the store that u worked on
HasMarked(k, u, id) ==
    /\ calls[k].pc = "done" /\ calls[k].op = "MarkAsRead"
    /\ calls[k].err = NoError
    /\ calls[k].store = calls[u].store
    /\ calls[k].id = id

\* when both have returned, the message has the title UpdateMail gave it
C35_UpdateKept ==
    \A k, u \in Goroutines :
        (HasMarked(k, u, <<"b">>) /\ HasRetitled(u, <<"b">>)) =>
            TableOf(calls[u].store)[<<"b">>].Title = calls[u].mail.val.Title

\* the write of MarkAsRead sets ReadStatus of the message and nothing else
C35_Step ==
    \A g \in Goroutines :
        (/\ calls[g].op = "MarkAsRead"
         /\ calls[g].pc \in {"locked", "save"}
         /\ calls'[g].pc = "done") =>
            IF calls[g].store = "mem"
            THEN mails' = IF calls[g].id \in DOMAIN mails
                          THEN [mails EXCEPT ![calls[g].id].ReadStatus = TRUE] ELSE mails
            ELSE rows' = IF calls[g].id \in DOMAIN rows
                         THEN [rows EXCEPT ![calls[g].id].ReadStatus = TRUE] ELSE rows

\* C35: MarkAsRead(id) changes only the ReadStatus of the stored message in
\* every interleaving.  Its write leaves every other field of the message as
\* it is in the store, and when a MarkAsRead and an UpdateMail of the same
\* message have both returned without error the message has the fields the
\* UpdateMail gave it, in both stores.
C35_MarkAsReadKeepsUpdate == []C35_UpdateKept /\ [][C35_Step]_vars


\* a filter with ExpiredOnly set and nothing else
ExpiredOnlyFilter == Filter("", "", UnsetBool, Unset, Unset, TRUE, <<>>)

\* a query with that filter has returned ret from the table tbl: it counted
\* the messages a sweep at the same instant removes, returned only such
\* messages, and all of them when they fit on its page
ExpiredListed(ret, tbl, swept) ==
    (ret.op = "QueryMails" /\ ret.f = ExpiredOnlyFilter) =>
        /\ ret.total = Cardinality(swept)
        /\ Range(Ids(ret.outs)) \subseteq swept
        /\ (coercePage(ret.page) = 1 /\ coerceSize(ret.size) >= ret.total) =>
               Range(Ids(ret.outs)) = swept
        /\ \A id \in Range(Ids(ret.outs)) :
               tbl[id].ExpireTime # 0 /\ tbl[id].ExpireTime # now

C36_Query ==
    /\ ExpiredListed(retM, mails, MemExpired(mails, now))
    /\ ExpiredListed(retG, rows, GormExpired(rows, now))

\* DeleteExpiredMails(now) removes the messages the filter matches at now
C36_Sweep ==
    (retM'.op = "DeleteExpiredMails" /\ retM.op = "none" /\ retM'.t = now) =>
        /\ DOMAIN mails \ DOMAIN mails' =
               {id \in DOMAIN mails : matchMail(mails[id], ExpiredOnlyFilter, now)}
        /\ DOMAIN rows \ DOMAIN rows' =
               {id \in DOMAIN rows : GormWhere(rows[id], ExpiredOnlyFilter, now)}
        /\ \A id \in DOMAIN mails' : mails[id].ExpireTime = 0 \/ mails[id].ExpireTime >= now
        /\ \A id \in DOMAIN rows' : rows[id].ExpireTime = 0 \/ rows[id].ExpireTime >= now

\* C36: querying and sweeping judge expiry alike.  For the same stored
\* messages and the same instant, QueryMails with only ExpiredOnly set
\* returns exactly the messages DeleteExpiredMails(now) removes, in both
\* stores; a message with zero ExpireTime or with ExpireTime equal to now is
\* neither returned nor removed.
C36_ExpiryJudgedAlike == []C36_Query /\ [][C36_Sweep]_vars

\* the query returned an expired message while a message expiring now and a
\* message that never expires are stored
C36_Witness ==
    /\ retM.op = "QueryMails" /\ retM.f = ExpiredOnlyFilter
    /\ retG.op = "QueryMails"
    /\ retM.outs # <<>> /\ retG.outs # <<>>
    /\ \E id \in DOMAIN mails : mails[id].ExpireTime = now
    /\ \E id \in DOMAIN mails : mails[id].ExpireTime = 0
    /\ \E id \in DOMAIN rows : rows[id].ExpireTime = now
    /\ \E id \in DOMAIN rows : rows[id].ExpireTime = 0

\* a sweep at the clock removed a message and left one expiring now
C36_SweptWitness ==
    /\ retM.op = "DeleteExpiredMails" /\ retM.t = now /\ retM.count > 0
    /\ retG.count > 0
    /\ \E id \in DOMAIN mails : mails[id].ExpireTime = now
    /\ \E id \in DOMAIN rows : rows[id].ExpireTime = now


\* the message given, the entity made of it and the message read back
ConvGiven == retG.mail.val
ConvEntity == rows[retG.mail.val.ID]
ConvBack == retG.out.val

\* C37: mailToEntity followed by entityToMail returns a message with the id,
\* sender, recipient, title, content, read status, times and tags of the
\* message given.  A nil attachment map is written as {} and a nil tag list
\* as []; both are read back as empty containers that are not nil.
C37_RoundTrip ==
    retG.op = "entityToMail" =>
        /\ ConvBack.ID = ConvGiven.ID
        /\ ConvBack.SenderID = ConvGiven.SenderID
        /\ ConvBack.RecipientID = ConvGiven.RecipientID
        /\ ConvBack.Title = ConvGiven.Title
        /\ ConvBack.Content = ConvGiven.Content
        /\ ConvBack.ReadStatus = ConvGiven.ReadStatus
        /\ ConvBack.CreateTime = ConvGiven.CreateTime
        /\ ConvBack.ExpireTime = ConvGiven.ExpireTime
        /\ ConvBack.Tags.v = ConvGiven.Tags.v
        /\ ~ConvBack.Tags.nil /\ ~ConvBack.Attachments.nil
        /\ ConvGiven.Attachments.nil =>
               ConvEntity.Attachments = <<"{", "}">> /\ ConvBack.Attachments.m = <<>>
        /\ ConvGiven.Tags.nil =>
               ConvEntity.Tags = <<"[", "]">> /\ ConvBack.Tags.v = <<>>

\* a message with no attachment map and no tag list has gone there and back
C37_Witness ==
    /\ retG.op = "entityToMail"
    /\ ConvGiven.Attachments.nil /\ ConvGiven.Tags.nil
    /\ ConvGiven.ID # <<>> /\ ConvGiven.ReadStatus

\* a message with two tags and two attachments has gone there and back
C37_TagsWitness ==
    /\ retG.op = "entityToMail"
    /\ Len(ConvGiven.Tags.v) = 2 /\ Len(ConvBack.Tags.v) = 2
    /\ DOMAIN ConvBack.Attachments.m = {"g", "i"}


\* C38: in every state of the in-memory store each message is filed under
\* its own id: the message under key k has ID k, so no two stored messages
\* have the same id and a GetMail(k) that succeeds returns a message whose
\* ID is k, whatever creates, batch creates, updates and deletes came before.
C38_FiledUnderOwnId ==
    /\ \A k \in DOMAIN mails : mails[k].ID = k
    /\ \A j, k \in DOMAIN mails : mails[j].ID = mails[k].ID => j = k
    /\ (retM.op = "GetMail" /\ retM.err = NoError) => retM.out.val.ID = retM.id

\* GetMail has returned a message whose id the store generated, with another
\* message stored beside it
C38_Witness ==
    /\ retM.op = "GetMail" /\ retM.err = NoError
    /\ Len(retM.id) = 4
    /\ Cardinality(DOMAIN mails) >= 2

\* a message has been replaced by UpdateMail after a delete took another away
C38_UpdatedWitness ==
    /\ retM.op = "UpdateMail" /\ retM.err = NoError
    /\ mails[retM.mail.val.ID] = copyMail(retM.mail.val)
    /\ <<"a">> \notin DOMAIN mails
    /\ \E k \in DOMAIN mails : Len(k) = 4

====
